---- MODULE Spec2Model ----
(***************************************************************************)
(* Model of the GA4 monthly reporting job (avisia_analytics_agent):        *)
(* the /run trigger of main.py, the orchestrator run_monthly_analysis and  *)
(* the pure aggregation / evolution / formatting functions of adk_agent.py.*)
(*                                                                         *)
(* Conventions                                                             *)
(*  - a Python dict is a TLA+ function/record; the empty dict {} is <<>>;  *)
(*    dict.get(k, d) is written Get(d_, k, d);                             *)
(*  - a Python list is a sequence;                                         *)
(*  - the metric strings of the analytics source are sequences of decimal  *)
(*    digits (integer literals); int() and float() parse them (ParseInt);  *)
(*  - a float that results from a division is an exact rational            *)
(*    [num, den] in lowest terms (Rat); integers n are Rat(n, 1);          *)
(*  - a Python exception raised by a function is the value Raised(kind).   *)
(***************************************************************************)
EXTENDS Integers, Sequences, FiniteSets, TLC

VARIABLES
    pc,              \* position of the request / of the harness
    calls,           \* the collaborator calls made so far, in order
    api_result,      \* JSON body last answered by the analytics server
    raw_data,        \* run_report's converted result for the current period
    campaign_raw,    \* run_report's converted result for the campaign query
    prev_raw_data,   \* run_report's converted result for the period before
    processed_data,  \* process_ga4_response(raw_data)
    campaign_data,   \* process_campaign_response(campaign_raw) (<<>> until assigned)
    prev_processed_data, \* process_ga4_response(prev_raw_data)
    evolution_rates, \* calculate_evolution_rates(processed_data, prev_processed_data)
    insights,        \* the narrative text (list of lines; <<>> until assigned)
    insights_html,   \* markdown_to_html(insights)
    stored,          \* the blobs written to the bucket, in order
    save_success,    \* return value of save_to_cloud_storage (FALSE until assigned)
    idx,             \* index in RECIPIENTS of the next recipient of the loop
    html_report,     \* the document last rendered by generate_html_report
    attempts,        \* per recipient handled so far: what happened to the delivery
    outbox,          \* the messages handed to the Gmail API, in order
    result,          \* return value of run_monthly_analysis
    exc,             \* the exception propagating out of run_monthly_analysis
    response,        \* HTTP response of the /run endpoint
    today,           \* datetime.now() of the run, <<year, month, day>>
    period,          \* period_start and period_end
    prev_period      \* prev_period_start and prev_period_end

\* the state of the orchestrator past the aggregates
jobVars == <<calls, campaign_raw, insights, insights_html, stored, save_success,
             idx, attempts, outbox, result, exc, response>>

\* the dates of the run
dateVars == <<today, period, prev_period>>

vars == <<dateVars, pc, api_result, raw_data, prev_raw_data, processed_data, campaign_data,
          prev_processed_data, evolution_rates, html_report, jobVars>>

-----------------------------------------------------------------------------
(* Bounds of the model *)

\* rows per analytics answer in the aggregation harness
MaxAggRows == 2
\* rows per analytics answer (current period) in the evolution harness
MaxRows == 2
\* rows per analytics answer (previous period) in the evolution harness
MaxPrevRows == 2
\* rows per campaign answer in the campaign harness
MaxCampRows == 3
\* rows per time-series answer in the time-series harness
MaxTsRows == 3
\* lines per narrative text in the formatter harness
MaxMdLines == 4

-----------------------------------------------------------------------------
(* Python values *)

None == [py |-> "None"]
EmptyDict == <<>>
Raised(kind) == [raised |-> kind]
IsRaised(v) == DOMAIN v = {"raised"}
IsNone(v) == v = None

Get(d, k, default) == IF k \in DOMAIN d THEN d[k] ELSE default

\* d[k] = v on a dict
DictPut(d, k, v) == [x \in DOMAIN d \cup {k} |-> IF x = k THEN v ELSE d[x]]

\* bool(x) of a dict or list: empty is falsy (None is handled by the callers)
Truthy(x) == DOMAIN x # {}

RECURSIVE ParseIntAcc(_, _)
ParseIntAcc(digits, acc) ==
    IF digits = <<>> THEN acc
    ELSE ParseIntAcc(Tail(digits), 10 * acc + Head(digits))

\* int("12") / float("12") of a string of decimal digits
ParseInt(digits) == ParseIntAcc(digits, 0)

Abs(n) == IF n < 0 THEN -n ELSE n

RECURSIVE GCD(_, _)
GCD(a, b) == IF b = 0 THEN a ELSE GCD(b, a % b)

\* the rational n/d (d # 0) in lowest terms with a positive denominator
Rat(n, d) ==
    LET g == GCD(Abs(n), Abs(d))
        s == IF d < 0 THEN -1 ELSE 1
    IN  [num |-> (s * n) \div g, den |-> (s * d) \div g]

RatPos(r) == r.num > 0
RatNeg(r) == r.num < 0

\* ((curr - prev) / prev) * 100 for prev # 0
PctDelta(curr, prev) == Rat((curr - prev) * 100, prev)

-----------------------------------------------------------------------------
(* datetime: a date is <<year, month, day>>; strftime("%Y-%m-%d") of a date *)
(* is the zero-padded string that the tuple stands for                     *)

IsLeap(year) == (year % 4 = 0 /\ year % 100 # 0) \/ year % 400 = 0

DaysInMonth(year, month) ==
    IF month = 2 THEN (IF IsLeap(year) THEN 29 ELSE 28)
    ELSE IF month \in {4, 6, 9, 11} THEN 30
    ELSE 31

\* date.replace(day=1)
first_of_month(date) == <<date[1], date[2], 1>>

\* date - timedelta(days=1)
day_before(date) ==
    IF date[3] > 1 THEN <<date[1], date[2], date[3] - 1>>
    ELSE IF date[2] > 1 THEN <<date[1], date[2] - 1, DaysInMonth(date[1], date[2] - 1)>>
    ELSE <<date[1] - 1, 12, 31>>

\* the bounds taken from a month's last day, without replace(day=1)
month_ending_unanchored(last_day) == [start |-> last_day, end |-> last_day]

\* the bounds of the month that ends on last_day: its first day is
\* last_day.replace(day=1)
month_ending(last_day) == [start |-> first_of_month(last_day), end |-> last_day]

\* period_start, period_end for a run at the date now
current_period(now) ==
    LET first_of_current_month == first_of_month(now)
        last_day_of_prev_month == day_before(first_of_current_month)
    IN  month_ending(last_day_of_prev_month)

\* prev_period_start, prev_period_end from first_day_of_prev_month
previous_period(first_day_of_prev_month) ==
    LET last_day_of_two_months_ago == day_before(first_day_of_prev_month)
    IN  month_ending(last_day_of_two_months_ago)

-----------------------------------------------------------------------------
(* GA4MCPClient.run_report: conversion of the server's JSON *)

\* one row of the server's JSON to the row shape the aggregators read
ConvertRow(row) ==
    [dimensionValues |->
        [i \in DOMAIN Get(row, "dimensions", <<>>) |->
            [value |-> Get(row, "dimensions", <<>>)[i]]],
     metricValues |->
        [i \in DOMAIN Get(row, "metrics", <<>>) |->
            [value |-> Get(row, "metrics", <<>>)[i]]]]

\* what the analytics server does with a request: a transport or HTTP error
\* (requests.post / raise_for_status raise), or a JSON body
ServerError == [error |-> "HTTPError"]
IsServerError(answer) == "error" \in DOMAIN answer

\* run_report with the request's exception swallowed: an empty result
run_report_swallows(answer) ==
    IF IsServerError(answer) THEN [rows |-> <<>>]
    ELSE [rows |-> [i \in DOMAIN Get(answer, "rows", <<>>) |->
                       ConvertRow(Get(answer, "rows", <<>>)[i])]]

\* run_report for a server answer: the converted rows, or the exception of the
\* request, logged and raised again
run_report(answer) ==
    IF IsServerError(answer) THEN Raised(answer.error)
    ELSE [rows |-> [i \in DOMAIN Get(answer, "rows", <<>>) |->
                       ConvertRow(Get(answer, "rows", <<>>)[i])]]

-----------------------------------------------------------------------------
(* process_ga4_response *)

\* labels of the model's universe whose lower-cased text contains "email"
EmailLabels == {"Email", "EMAIL Social"}
\* ... contains "social", "facebook" or "instagram"
SocialLabels == {"Organic Social", "EMAIL Social", "Facebook Ads"}

ContainsEmail(channel) == channel \in EmailLabels
\* the social test with the word "social" only
ContainsSocial_SocialOnly(channel) == channel \in {"Organic Social", "EMAIL Social"}

ContainsSocial(channel) == channel \in SocialLabels

\* row.get("dimensionValues", [{}])[0] raises IndexError on an empty list
RowLabelRaises(row) == Len(Get(row, "dimensionValues", <<EmptyDict>>)) = 0

\* row.get("dimensionValues", [{}])[0].get("value", "Unknown")
RowLabel(row) ==
    LET dv == Get(row, "dimensionValues", <<EmptyDict>>)
    IN  IF Len(dv) = 0 THEN "IndexError"
        ELSE Get(dv[1], "value", "Unknown")

\* <coerce>(metrics[i].get("value", 0)) if len(metrics) > i else 0   (i from 0)
MetricAt(row, i) ==
    LET metrics == Get(row, "metricValues", <<>>)
    IN  IF Len(metrics) > i
        THEN (IF "value" \in DOMAIN metrics[i + 1]
              THEN ParseInt(metrics[i + 1].value) ELSE 0)
        ELSE 0

channel_data(row) ==
    [channel |-> RowLabel(row),
     sessions |-> MetricAt(row, 0),
     conversions |-> MetricAt(row, 1),
     revenue |-> MetricAt(row, 2),
     engagement_rate |-> MetricAt(row, 3),
     avg_session_duration |-> MetricAt(row, 4)]

RECURSIVE InsertDesc_TiesReversed(_, _)
\* an insertion before the elements that are equal: the sort is not stable
InsertDesc_TiesReversed(sorted, x) ==
    IF sorted = <<>> THEN <<x>>
    ELSE IF Head(sorted).sessions > x.sessions
         THEN <<Head(sorted)>> \o InsertDesc_TiesReversed(Tail(sorted), x)
         ELSE <<x>> \o sorted

\* list.sort(key=lambda x: x["sessions"], reverse=True): a stable sort,
\* as an insertion of each element after the elements that are not smaller
RECURSIVE InsertDesc(_, _)
InsertDesc(sorted, x) ==
    IF sorted = <<>> THEN <<x>>
    ELSE IF Head(sorted).sessions >= x.sessions
         THEN <<Head(sorted)>> \o InsertDesc(Tail(sorted), x)
         ELSE <<x>> \o sorted

\* the sort without reverse=True: ascending by sessions
SortBySessionsDesc_Ascending(s) ==
    LET RECURSIVE InsAsc(_, _)
        InsAsc(sorted, x) ==
            IF sorted = <<>> THEN <<x>>
            ELSE IF Head(sorted).sessions <= x.sessions
                 THEN <<Head(sorted)>> \o InsAsc(Tail(sorted), x)
                 ELSE <<x>> \o sorted
        RECURSIVE SortAsc(_)
        SortAsc(q) == IF q = <<>> THEN <<>>
                      ELSE InsAsc(SortAsc(SubSeq(q, 1, Len(q) - 1)), q[Len(q)])
    IN  SortAsc(s)

RECURSIVE SortBySessionsDesc(_)
SortBySessionsDesc(s) ==
    IF s = <<>> THEN <<>>
    ELSE InsertDesc(SortBySessionsDesc(SubSeq(s, 1, Len(s) - 1)), s[Len(s)])

RECURSIVE SumField(_, _)
SumField(s, f) == IF s = <<>> THEN 0 ELSE Head(s)[f] + SumField(Tail(s), f)

RECURSIVE FocusFold_FirstWins(_, _, _)
\* the spotlight assignment that keeps a slot once it is filled
FocusFold_FirstWins(chs, which, acc) ==
    IF chs = <<>> THEN acc
    ELSE LET ch == Head(chs)
             isEmail == ContainsEmail(ch.channel)
             isSocial == ~isEmail /\ ContainsSocial(ch.channel)
             hit == IF which = "email" THEN isEmail ELSE isSocial
         IN  FocusFold_FirstWins(Tail(chs), which,
                                 IF hit /\ acc = EmptyDict THEN ch ELSE acc)

\* the loop body's spotlight assignment, folded over the rows in source order
RECURSIVE FocusFold(_, _, _)
FocusFold(chs, which, acc) ==
    IF chs = <<>> THEN acc
    ELSE LET ch == Head(chs)
             isEmail == ContainsEmail(ch.channel)
             isSocial == ~isEmail /\ ContainsSocial(ch.channel)
             hit == IF which = "email" THEN isEmail ELSE isSocial
         IN  FocusFold(Tail(chs), which, IF hit THEN ch ELSE acc)

\* the aggregation keyed by channel label: a later row with the same label
\* replaces the entry of an earlier one
process_ga4_response_keyed(raw) ==
    IF ~Truthy(raw) \/ "rows" \notin DOMAIN raw THEN EmptyDict
    ELSE LET rows == raw.rows
             chs == [i \in DOMAIN rows |-> channel_data(rows[i])]
             IsLast(i) == \A j \in DOMAIN chs : j > i => chs[j].channel # chs[i].channel
             RECURSIVE Merged(_)
             Merged(i) == IF i > Len(chs) THEN <<>>
                          ELSE (IF IsLast(i) THEN <<chs[i]>> ELSE <<>>) \o Merged(i + 1)
         IN  IF \E i \in DOMAIN rows : RowLabelRaises(rows[i])
             THEN Raised("IndexError")
             ELSE [channels |-> SortBySessionsDesc(Merged(1)),
                   total_sessions |-> SumField(Merged(1), "sessions"),
                   total_conversions |-> SumField(Merged(1), "conversions"),
                   total_revenue |-> SumField(Merged(1), "revenue"),
                   email_focus |-> FocusFold(chs, "email", EmptyDict),
                   social_focus |-> FocusFold(chs, "social", EmptyDict)]

process_ga4_response(raw) ==
    IF ~Truthy(raw) \/ "rows" \notin DOMAIN raw THEN EmptyDict
    ELSE LET rows == raw.rows
             chs == [i \in DOMAIN rows |-> channel_data(rows[i])]
         IN  IF \E i \in DOMAIN rows : RowLabelRaises(rows[i])
             THEN Raised("IndexError")
             ELSE [channels |-> SortBySessionsDesc(chs),
                   total_sessions |-> SumField(chs, "sessions"),
                   total_conversions |-> SumField(chs, "conversions"),
                   total_revenue |-> SumField(chs, "revenue"),
                   email_focus |-> FocusFold(chs, "email", EmptyDict),
                   social_focus |-> FocusFold(chs, "social", EmptyDict)]

-----------------------------------------------------------------------------
(* process_time_series_response *)

\* a date string "YYYY-MM-DD" is the tuple <<year, month, day>>: the order of
\* the zero-padded strings is the lexicographic order of the tuples
RECURSIVE StrLess(_, _)
StrLess(a, b) ==
    IF a = <<>> THEN b # <<>>
    ELSE IF b = <<>> THEN FALSE
    ELSE IF Head(a) # Head(b) THEN Head(a) < Head(b)
    ELSE StrLess(Tail(a), Tail(b))

RECURSIVE Sorted(_)
\* sorted(keys): ascending, each key once
Sorted(keys) ==
    IF keys = {} THEN <<>>
    ELSE LET least == CHOOSE k \in keys : \A o \in keys \ {k} : StrLess(k, o)
         IN  <<least>> \o Sorted(keys \ {least})

RECURSIVE TimeSeriesPoints(_, _)
\* the loop over the rows: data_by_date_channel (keyed by <<date, channel>>)
\* and all_channels; rows with fewer than 2 dimension values are skipped
TimeSeriesPoints(rows, acc) ==
    IF rows = <<>> THEN acc
    ELSE LET row == Head(rows)
             dims == Get(row, "dimensionValues", <<>>)
         IN  IF Len(dims) < 2 THEN TimeSeriesPoints(Tail(rows), acc)
             ELSE LET date == Get(dims[1], "value", <<>>)
                      channel == Get(dims[2], "value", "Unknown")
                  IN  TimeSeriesPoints(Tail(rows),
                         [data |-> DictPut(acc.data, <<date, channel>>, MetricAt(row, 0)),
                          dates |-> acc.dates \cup {date},
                          all_channels |-> acc.all_channels \cup {channel}])

\* the series built from the dates at which the channel has a row only
process_time_series_response_sparse(raw) ==
    IF ~Truthy(raw) \/ "rows" \notin DOMAIN raw THEN EmptyDict
    ELSE LET acc == TimeSeriesPoints(raw.rows,
                       [data |-> EmptyDict, dates |-> {}, all_channels |-> {}])
             sorted_dates == Sorted(acc.dates)
             RECURSIVE Present(_, _)
             Present(channel, i) ==
                 IF i > Len(sorted_dates) THEN <<>>
                 ELSE (IF <<sorted_dates[i], channel>> \in DOMAIN acc.data
                       THEN <<acc.data[<<sorted_dates[i], channel>>]>> ELSE <<>>)
                      \o Present(channel, i + 1)
         IN  [dates |-> sorted_dates,
              by_channel |-> [channel \in acc.all_channels |-> Present(channel, 1)]]

process_time_series_response(raw) ==
    IF ~Truthy(raw) \/ "rows" \notin DOMAIN raw THEN EmptyDict
    ELSE LET acc == TimeSeriesPoints(raw.rows,
                       [data |-> EmptyDict, dates |-> {}, all_channels |-> {}])
             sorted_dates == Sorted(acc.dates)
         IN  [dates |-> sorted_dates,
              by_channel |->
                  [channel \in acc.all_channels |->
                      [i \in 1..Len(sorted_dates) |->
                          Get(acc.data, <<sorted_dates[i], channel>>, 0)]]]

-----------------------------------------------------------------------------
(* process_campaign_response *)

\* str.lower() on the names of the model's universe
Lower(name) ==
    CASE name = "(NOT SET)" -> "(not set)"
      [] name = "(None)" -> "(none)"
      [] name = "Unknown" -> "unknown"
      [] name = "UNKNOWN" -> "unknown"
      [] name = "Spring Sale" -> "spring sale"
      [] name = "Promo" -> "promo"
      [] OTHER -> name

\* the list of names the filter tests campaign_name.lower() against
SentinelCampaigns == {"(not set)", "(none)", "unknown", ""}

\* some row makes row.get("dimensionValues", [{}])[0] raise
CampaignRaises(raw) == \E i \in DOMAIN raw.rows : RowLabelRaises(raw.rows[i])

campaign_entry(row) ==
    [campaign |-> RowLabel(row), sessions |-> MetricAt(row, 0)]

RECURSIVE KeptCampaigns_CaseSensitive(_)
\* the loop with the name compared as it is, without lower()
KeptCampaigns_CaseSensitive(rows) ==
    IF rows = <<>> THEN <<>>
    ELSE IF RowLabel(Head(rows)) \in SentinelCampaigns
         THEN KeptCampaigns_CaseSensitive(Tail(rows))
         ELSE <<campaign_entry(Head(rows))>> \o KeptCampaigns_CaseSensitive(Tail(rows))

RECURSIVE KeptCampaigns(_)
\* the loop of process_campaign_response: rows in order, sentinels skipped
KeptCampaigns(rows) ==
    IF rows = <<>> THEN <<>>
    ELSE IF Lower(RowLabel(Head(rows))) \in SentinelCampaigns
         THEN KeptCampaigns(Tail(rows))
         ELSE <<campaign_entry(Head(rows))>> \o KeptCampaigns(Tail(rows))

process_campaign_response(raw) ==
    IF ~Truthy(raw) \/ "rows" \notin DOMAIN raw THEN <<>>
    ELSE IF CampaignRaises(raw)
         THEN Raised("IndexError")
         ELSE SortBySessionsDesc(KeptCampaigns(raw.rows))

-----------------------------------------------------------------------------
(* calculate_evolution_rates *)

RECURSIVE PreviousByChannel(_, _)
\* previous_by_channel[ch["channel"]] = ch["sessions"], in list order
PreviousByChannel(chs, acc) ==
    IF chs = <<>> THEN acc
    ELSE PreviousByChannel(Tail(chs), DictPut(acc, Head(chs).channel, Head(chs).sessions))

\* the value stored for one current channel, without the "new channel" case
ChannelEvolution_NewAsZero(current_sessions, previous_sessions) ==
    IF previous_sessions > 0 THEN PctDelta(current_sessions, previous_sessions)
    ELSE Rat(0, 1)

\* the value stored for one current channel
ChannelEvolution(current_sessions, previous_sessions) ==
    IF previous_sessions > 0 THEN PctDelta(current_sessions, previous_sessions)
    ELSE IF current_sessions > 0 THEN Rat(100, 1)
    ELSE Rat(0, 1)

RECURSIVE EvolutionFold(_, _, _)
EvolutionFold(chs, previous_by_channel, acc) ==
    IF chs = <<>> THEN acc
    ELSE EvolutionFold(Tail(chs), previous_by_channel,
            DictPut(acc, Head(chs).channel,
                    ChannelEvolution(Head(chs).sessions,
                                     Get(previous_by_channel, Head(chs).channel, 0))))

\* the map that also reports the channels of the previous snapshot alone,
\* at -100
calculate_evolution_rates_with_lost(current_data, previous_data) ==
    LET prev == PreviousByChannel(Get(previous_data, "channels", <<>>), EmptyDict)
        now == EvolutionFold(Get(current_data, "channels", <<>>), prev, EmptyDict)
    IN  [l \in DOMAIN now \cup DOMAIN prev |->
            IF l \in DOMAIN now THEN now[l] ELSE Rat(-100, 1)]

calculate_evolution_rates(current_data, previous_data) ==
    EvolutionFold(Get(current_data, "channels", <<>>),
                  PreviousByChannel(Get(previous_data, "channels", <<>>), EmptyDict),
                  EmptyDict)

-----------------------------------------------------------------------------
(* generate_html_report: the values the document shows *)

\* f"{evo:.0f}": the nearest integer, ties to the even one
RoundHalfEven(r) ==
    LET q == r.num \div r.den
        twice == 2 * (r.num - q * r.den)
    IN  IF twice < r.den THEN q
        ELSE IF twice > r.den THEN q + 1
        ELSE IF q % 2 = 0 THEN q ELSE q + 1

\* format_evolution_inline / format_evolution: arrow (and colour) by sign, and
\* the rounded percentage printed
format_evolution_inline(evo) ==
    IF RatPos(evo) THEN [arrow |-> "up", pct |-> RoundHalfEven(evo)]
    ELSE IF RatNeg(evo) THEN [arrow |-> "down", pct |-> RoundHalfEven(evo)]
    ELSE [arrow |-> "flat", pct |-> 0]

format_evolution(evo) == format_evolution_inline(evo)

\* next((ch for ch in channels if ch['channel'] == channel_name), None)
FirstWithLabel(channels, channel_name) ==
    LET hits == { i \in DOMAIN channels : channels[i].channel = channel_name }
    IN  IF hits = {} THEN None
        ELSE channels[CHOOSE i \in hits : \A j \in hits : i <= j]

\* the helper without the case of a value that is new: 0 on a previous value
\* of 0, whatever the current value
get_channel_metric_evolution_zero_baseline(channel_name, metric_name, current_channels, prev_channels) ==
    IF prev_channels = <<>> THEN Rat(0, 1)
    ELSE LET current_ch == FirstWithLabel(current_channels, channel_name)
             prev_ch == FirstWithLabel(prev_channels, channel_name)
         IN  IF IsNone(current_ch) \/ IsNone(prev_ch) THEN Rat(0, 1)
             ELSE LET curr_val == Get(current_ch, metric_name, 0)
                      prev_val == Get(prev_ch, metric_name, 0)
                  IN  IF prev_val = 0 THEN Rat(0, 1)
                      ELSE PctDelta(curr_val, prev_val)

\* the helper with the operands of the difference exchanged
get_channel_metric_evolution_swapped(channel_name, metric_name, current_channels, prev_channels) ==
    IF prev_channels = <<>> THEN Rat(0, 1)
    ELSE LET current_ch == FirstWithLabel(current_channels, channel_name)
             prev_ch == FirstWithLabel(prev_channels, channel_name)
         IN  IF IsNone(current_ch) \/ IsNone(prev_ch) THEN Rat(0, 1)
             ELSE LET curr_val == Get(current_ch, metric_name, 0)
                      prev_val == Get(prev_ch, metric_name, 0)
                  IN  IF prev_val = 0
                      THEN (IF curr_val > 0 THEN Rat(100, 1) ELSE Rat(0, 1))
                      ELSE Rat((prev_val - curr_val) * 100, prev_val)

get_channel_metric_evolution(channel_name, metric_name, current_channels, prev_channels) ==
    IF prev_channels = <<>> THEN Rat(0, 1)
    ELSE LET current_ch == FirstWithLabel(current_channels, channel_name)
             prev_ch == FirstWithLabel(prev_channels, channel_name)
         IN  IF IsNone(current_ch) \/ IsNone(prev_ch) THEN Rat(0, 1)
             ELSE LET curr_val == Get(current_ch, metric_name, 0)
                      prev_val == Get(prev_ch, metric_name, 0)
                  IN  IF prev_val = 0
                      THEN (IF curr_val > 0 THEN Rat(100, 1) ELSE Rat(0, 1))
                      ELSE PctDelta(curr_val, prev_val)

\* the helper without "previous[metric] == 0" in its first test: a previous
\* value of 0 reaches the branch that gives 100 for a current value > 0
get_focus_evolution_new_as_100(current, previous, metric) ==
    IF IsNone(previous) \/ ~Truthy(previous) \/ metric \notin DOMAIN previous
    THEN Rat(0, 1)
    ELSE IF previous[metric] = 0
    THEN (IF Get(current, metric, 0) > 0 THEN Rat(100, 1) ELSE Rat(0, 1))
    ELSE PctDelta(Get(current, metric, 0), Get(previous, metric, 0))

get_focus_evolution(current, previous, metric) ==
    IF IsNone(previous) \/ ~Truthy(previous) \/ metric \notin DOMAIN previous
    THEN Rat(0, 1)
    ELSE IF previous[metric] = 0 THEN Rat(0, 1)
    ELSE PctDelta(Get(current, metric, 0), Get(previous, metric, 0))

\* the evolution of a total, computed with the rule of the channels
TotalEvolution_NewAs100(data, prev_data, field) ==
    IF ~IsNone(prev_data) /\ Truthy(prev_data) /\ Get(prev_data, field, 0) > 0
    THEN PctDelta(data[field], Get(prev_data, field, 0))
    ELSE IF data[field] > 0 THEN Rat(100, 1)
    ELSE Rat(0, 1)

\* the evolution printed beside a total of the executive summary
TotalEvolution(data, prev_data, field) ==
    IF ~IsNone(prev_data) /\ Truthy(prev_data) /\ Get(prev_data, field, 0) > 0
    THEN PctDelta(data[field], Get(prev_data, field, 0))
    ELSE Rat(0, 1)

\* a row of the channel table; "evolution" keeps the loop's values
\* sessions_evo, conversions_evo and engagement_evo as the helper returned
\* them, beside the figures printed from them
channel_row(ch, current_channels, prev_channels) ==
    LET sessions_evo ==
            get_channel_metric_evolution(ch.channel, "sessions", current_channels, prev_channels)
        conversions_evo ==
            get_channel_metric_evolution(ch.channel, "conversions", current_channels, prev_channels)
        engagement_evo ==
            get_channel_metric_evolution(ch.channel, "engagement_rate", current_channels, prev_channels)
    IN  [channel |-> ch.channel,
         sessions |-> ch.sessions,
         sessions_evo |-> format_evolution_inline(sessions_evo),
         conversions |-> ch.conversions,
         conversions_evo |-> format_evolution_inline(conversions_evo),
         engagement_rate |-> ch.engagement_rate,
         engagement_evo |-> format_evolution_inline(engagement_evo),
         evolution |-> [sessions |-> sessions_evo, conversions |-> conversions_evo,
                        engagement_rate |-> engagement_evo]]

\* a spotlight card; <<>> when the snapshot has no such spotlight;
\* "evolution" keeps the values get_focus_evolution returned
focus_section(focus, prev_focus) ==
    IF ~Truthy(focus) THEN <<>>
    ELSE LET sessions_evo == get_focus_evolution(focus, prev_focus, "sessions")
             conversions_evo == get_focus_evolution(focus, prev_focus, "conversions")
             engagement_evo == get_focus_evolution(focus, prev_focus, "engagement_rate")
         IN  [sessions |-> focus.sessions,
              sessions_evo |-> format_evolution(sessions_evo),
              conversions |-> focus.conversions,
              conversions_evo |-> format_evolution(conversions_evo),
              engagement_rate |-> focus.engagement_rate,
              engagement_evo |-> format_evolution(engagement_evo),
              evolution |-> [sessions |-> sessions_evo, conversions |-> conversions_evo,
                             engagement_rate |-> engagement_evo]]

\* rows of the campaign table: campaign_data[:10]
TopCampaigns == 10

name_mapping ==
    [mjacobson |-> "Marion", mnunez |-> "Mario", adejullien |-> "Astrid",
     btran |-> "Bao", gbertin |-> "Gaetan"]

\* name_part.capitalize() for the local parts of the model's universe
Capitalize(name_part) == IF name_part = "jdoe" THEN "Jdoe" ELSE name_part

\* an address is [local, domain]; recipient.split('@')[0] is its local part
recipient_name(recipient) ==
    IF IsNone(recipient) THEN <<"Bonjour">>
    ELSE <<"Bonjour", Get(name_mapping, recipient.local, Capitalize(recipient.local))>>

generate_html_report(data, recipient, prev_data, campaign_list) ==
    IF IsNone(data) \/ ~Truthy(data) \/ Get(data, "channels", <<>>) = <<>>
    THEN [kind |-> "no_data"]
    ELSE LET prev_channels ==
                 IF ~IsNone(prev_data) /\ Truthy(prev_data)
                 THEN Get(prev_data, "channels", <<>>) ELSE <<>>
             prev_email == IF ~IsNone(prev_data) /\ Truthy(prev_data)
                           THEN Get(prev_data, "email_focus", None) ELSE None
             prev_social == IF ~IsNone(prev_data) /\ Truthy(prev_data)
                            THEN Get(prev_data, "social_focus", None) ELSE None
         IN  [kind |-> "report",
              greeting |-> recipient_name(recipient),
              total_sessions |-> data.total_sessions,
              total_sessions_evo |->
                  format_evolution_inline(TotalEvolution(data, prev_data, "total_sessions")),
              total_conversions |-> data.total_conversions,
              total_conversions_evo |->
                  format_evolution_inline(TotalEvolution(data, prev_data, "total_conversions")),
              top_channel |-> data.channels[1],
              email_section |-> focus_section(Get(data, "email_focus", <<>>), prev_email),
              social_section |-> focus_section(Get(data, "social_focus", <<>>), prev_social),
              campaign_rows |->
                  SubSeq(campaign_list, 1,
                         IF Len(campaign_list) < TopCampaigns
                         THEN Len(campaign_list) ELSE TopCampaigns),
              channel_rows |->
                  [i \in DOMAIN data.channels |->
                      channel_row(data.channels[i], data.channels, prev_channels)],
              signature |-> TRUE]

-----------------------------------------------------------------------------
(* markdown_to_html                                                        *)
(* A text is the list of its lines (split at "\n"); a line is a list of    *)
(* tokens: "*", "#", "-" and " " are those characters, any other token is  *)
(* a run of ordinary characters.                                           *)

RECURSIVE Bold(_)
\* re.sub(r'\*\*(.+?)\*\*', r'<strong>\1</strong>', ...) within one line:
\* leftmost "**", shortest non-empty content, next "**"
Bold(line) ==
    IF Len(line) < 5 THEN line
    ELSE LET closing == { j \in 4..(Len(line) - 1) : line[j] = "*" /\ line[j + 1] = "*" }
         IN  IF line[1] = "*" /\ line[2] = "*" /\ closing # {}
             THEN LET j == CHOOSE x \in closing : \A y \in closing : x <= y
                  IN  <<"<strong>">> \o SubSeq(line, 3, j - 1) \o <<"</strong>">>
                          \o Bold(SubSeq(line, j + 2, Len(line)))
             ELSE <<Head(line)>> \o Bold(Tail(line))

RECURSIVE LStrip(_)
LStrip(line) ==
    IF line # <<>> /\ Head(line) = " " THEN LStrip(Tail(line)) ELSE line

RECURSIVE RStrip(_)
RStrip(line) ==
    IF line # <<>> /\ line[Len(line)] = " "
    THEN RStrip(SubSeq(line, 1, Len(line) - 1)) ELSE line

\* line.strip()
Strip(line) == RStrip(LStrip(line))

StartsWith(line, prefix) ==
    Len(line) >= Len(prefix) /\ SubSeq(line, 1, Len(prefix)) = prefix

Drop(line, n) == SubSeq(line, n + 1, Len(line))

Element(tag, content) == [tag |-> tag, content |-> content]

\* the loop body testing the line as it is, without line.strip()
LineElements_Unstripped(line, in_list) ==
    LET close == IF in_list THEN <<Element("/ul", <<>>)>> ELSE <<>>
    IN  IF StartsWith(line, <<"#", "#", "#", " ">>)
        THEN close \o <<Element("h4", Drop(line, 4))>>
        ELSE IF StartsWith(line, <<"#", "#", " ">>)
        THEN close \o <<Element("h3", Drop(line, 3))>>
        ELSE IF StartsWith(line, <<"*", " ">>) \/ StartsWith(line, <<"-", " ">>)
        THEN (IF in_list THEN <<>> ELSE <<Element("ul", <<>>)>>)
                 \o <<Element("li", Drop(line, 2))>>
        ELSE IF line # <<>>
        THEN close \o <<Element("p", line)>>
        ELSE close \o <<Element("br", <<>>)>>

\* the elements one line appends to converted_lines, given in_list
LineElements(line, in_list) ==
    LET stripped == Strip(line)
        close == IF in_list THEN <<Element("/ul", <<>>)>> ELSE <<>>
    IN  IF StartsWith(stripped, <<"#", "#", "#", " ">>)
        THEN close \o <<Element("h4", Drop(stripped, 4))>>
        ELSE IF StartsWith(stripped, <<"#", "#", " ">>)
        THEN close \o <<Element("h3", Drop(stripped, 3))>>
        ELSE IF StartsWith(stripped, <<"*", " ">>) \/ StartsWith(stripped, <<"-", " ">>)
        THEN (IF in_list THEN <<>> ELSE <<Element("ul", <<>>)>>)
                 \o <<Element("li", Drop(stripped, 2))>>
        ELSE IF stripped # <<>>
        THEN close \o <<Element("p", line)>>
        ELSE close \o <<Element("br", <<>>)>>

\* in_list after the line
LineInList(line) ==
    LET stripped == Strip(line)
    IN  /\ ~StartsWith(stripped, <<"#", "#", "#", " ">>)
        /\ ~StartsWith(stripped, <<"#", "#", " ">>)
        /\ (StartsWith(stripped, <<"*", " ">>) \/ StartsWith(stripped, <<"-", " ">>))

RECURSIVE ConvertLines_NoFinalClose(_, _)
\* the loop without the "close list if still open" after it
ConvertLines_NoFinalClose(lines, in_list) ==
    IF lines = <<>> THEN <<>>
    ELSE LineElements(Head(lines), in_list)
             \o ConvertLines_NoFinalClose(Tail(lines), LineInList(Head(lines)))

RECURSIVE ConvertLines(_, _)
ConvertLines(lines, in_list) ==
    IF lines = <<>>
    THEN (IF in_list THEN <<Element("/ul", <<>>)>> ELSE <<>>)
    ELSE LineElements(Head(lines), in_list)
             \o ConvertLines(Tail(lines), LineInList(Head(lines)))

\* the elements of the returned HTML, one per "\n"-joined piece; the empty
\* text gives ""
markdown_to_html(markdown_text) ==
    IF markdown_text = << <<>> >> THEN <<>>
    ELSE ConvertLines([i \in DOMAIN markdown_text |-> Bold(markdown_text[i])], FALSE)

-----------------------------------------------------------------------------
(* generate_insights_with_gemini, save_to_cloud_storage, send_email_simple *)

\* "AI insights generation unavailable. Please review the data manually."
FallbackInsights ==
    << <<"AI", " ", "insights", " ", "generation", " ", "unavailable.", " ",
         "Please", " ", "review", " ", "the", " ", "data", " ", "manually.">> >>

\* the narrative service fails and the function returns an empty text
generate_insights_with_gemini_empty(reply) ==
    IF "error" \in DOMAIN reply THEN << <<>> >> ELSE reply.text

\* the narrative service answers with a text or fails
generate_insights_with_gemini(reply) ==
    IF "error" \in DOMAIN reply THEN FallbackInsights ELSE reply.text

\* the record with the total of the conversions copied into total_sessions
report_data_copied_total(data, insights_text) ==
    [total_sessions |-> Get(data, "total_conversions", 0),
     total_conversions |-> Get(data, "total_conversions", 0),
     total_revenue |-> Get(data, "total_revenue", 0),
     channels |-> Get(data, "channels", <<>>),
     email_focus |-> Get(data, "email_focus", EmptyDict),
     social_focus |-> Get(data, "social_focus", EmptyDict),
     ai_insights |-> insights_text]

\* the record uploaded as report_<start>_to_<end>.json
report_data(data, insights_text) ==
    [total_sessions |-> Get(data, "total_sessions", 0),
     total_conversions |-> Get(data, "total_conversions", 0),
     total_revenue |-> Get(data, "total_revenue", 0),
     channels |-> Get(data, "channels", <<>>),
     email_focus |-> Get(data, "email_focus", EmptyDict),
     social_focus |-> Get(data, "social_focus", EmptyDict),
     ai_insights |-> insights_text]

\* save_to_cloud_storage without its except clause: the upload's exception
\* leaves the function
save_to_cloud_storage_raises(data, insights_text, bucket_ok) ==
    IF bucket_ok
    THEN [returned |-> TRUE, written |-> <<report_data(data, insights_text)>>]
    ELSE Raised("GoogleCloudError")

\* save_to_cloud_storage: the value returned and the blobs written, for a
\* bucket that accepts the upload or fails
save_to_cloud_storage(data, insights_text, bucket_ok) ==
    IF bucket_ok
    THEN [returned |-> TRUE, written |-> <<report_data(data, insights_text)>>]
    ELSE [returned |-> FALSE, written |-> <<>>]

\* send_email_simple: the dict returned and the messages sent, for a Gmail
\* API that accepts the message or fails
send_email_simple(to, body, gmail_ok) ==
    IF gmail_ok
    THEN [returned |-> [status |-> "success"], sent |-> <<[to |-> to, body |-> body]>>]
    ELSE [returned |-> [status |-> "error"], sent |-> <<>>]

\* html_report.replace('<div class="signature">', <AI block> + <note> + ...):
\* the blocks are inserted where the document has its signature
splice_insights(report, narrative_html) ==
    IF Get(report, "signature", FALSE)
    THEN [report |-> report, ai_analysis |-> <<narrative_html>>, conversions_note |-> TRUE]
    ELSE [report |-> report, ai_analysis |-> <<>>, conversions_note |-> FALSE]

-----------------------------------------------------------------------------
(* Aggregation harness: one analytics answer through run_report and        *)
(* process_ga4_response                                                    *)

\* number of metrics the channel query asks for (sessions .. averageSessionDuration)
NumMetrics == 5

\* metric strings of two sample rows, as the server sends them
SampleMetrics ==
    { << <<1, 2>>, <<3>>, <<4, 5>>, <<6>>, <<7>> >>,
      << <<2>>, <<0>>, <<9>>, <<1>>, <<3, 0>> >> }

\* a server row's metric list: a sample row cut after its first k values
MetricLists == { SubSeq(m, 1, k) : m \in SampleMetrics, k \in 0..NumMetrics }

\* a server row's dimension list, when the row has the key
DimLists == { <<>>, <<"Email">>, <<"Organic Social">> }

\* a row of the server's JSON; the "dimensions" key may be missing
ApiRows ==
    { [dimensions |-> d, metrics |-> m] : d \in DimLists, m \in MetricLists }
    \cup { [metrics |-> m] : m \in MetricLists }
    \cup { [dimensions |-> <<c>>, metrics |-> m] :
              c \in {"EMAIL Social", "Facebook Ads"}, m \in SampleMetrics }

RECURSIVE SeqsUpTo(_, _)
\* the sequences over S of length at most n
SeqsUpTo(S, n) ==
    IF n = 0 THEN { <<>> }
    ELSE LET shorter == SeqsUpTo(S, n - 1)
         IN  shorter \cup { Append(q, x) : q \in shorter, x \in S }

\* the orchestrator's state before a request
JobIdle ==
    /\ calls = <<>>
    /\ campaign_raw = None
    /\ insights = <<>>
    /\ insights_html = <<>>
    /\ stored = <<>>
    /\ save_success = FALSE
    /\ idx = 1
    /\ attempts = <<>>
    /\ outbox = <<>>
    /\ result = None
    /\ exc = "none"
    /\ response = None

InitAgg ==
    /\ pc = "agg_query"
    /\ today = None /\ period = None /\ prev_period = None
    /\ api_result \in { [rows |-> rs] : rs \in SeqsUpTo(ApiRows, MaxAggRows) }
    /\ raw_data = None
    /\ prev_raw_data = None
    /\ processed_data = None
    /\ campaign_data = <<>>
    /\ prev_processed_data = None
    /\ evolution_rates = None
    /\ html_report = None
    /\ JobIdle

\* GA4MCPClient.run_report on the server's answer
AggRunReport ==
    /\ pc = "agg_query"
    /\ raw_data' = run_report(api_result)
    /\ pc' = "agg_process"
    /\ UNCHANGED <<dateVars, api_result, prev_raw_data, processed_data, campaign_data,
                   prev_processed_data, evolution_rates, html_report, jobVars>>

\* process_ga4_response on the converted answer
AggProcess ==
    /\ pc = "agg_process"
    /\ processed_data' = process_ga4_response(raw_data)
    /\ pc' = "agg_done"
    /\ UNCHANGED <<dateVars, api_result, raw_data, prev_raw_data, campaign_data,
                   prev_processed_data, evolution_rates, html_report, jobVars>>

NextAgg == AggRunReport \/ AggProcess

SpecAgg == InitAgg /\ [][NextAgg]_vars

\* the entry the claims expect for a converted row: label or "Unknown", the
\* metric values present in their positions, 0 in the positions beyond
ExpectedLabel(row) ==
    IF Len(row.dimensionValues) = 0 THEN "Unknown" ELSE row.dimensionValues[1].value

ExpectedMetric(row, pos) ==
    IF pos < Len(row.metricValues) THEN ParseInt(row.metricValues[pos + 1].value) ELSE 0

ExpectedEntry(row) ==
    [channel |-> ExpectedLabel(row),
     sessions |-> ExpectedMetric(row, 0),
     conversions |-> ExpectedMetric(row, 1),
     revenue |-> ExpectedMetric(row, 2),
     engagement_rate |-> ExpectedMetric(row, 3),
     avg_session_duration |-> ExpectedMetric(row, 4)]

Bijections(n) ==
    { p \in [1..n -> 1..n] : \A i, j \in 1..n : i # j => p[i] # p[j] }

\* the channel list holds exactly the expected entries of the rows
EntriesMatchRows(rows, channels) ==
    /\ Len(channels) = Len(rows)
    /\ \E p \in Bijections(Len(rows)) :
          \A i \in 1..Len(rows) : channels[p[i]] = ExpectedEntry(rows[i])

HasNoDimension(row) == Len(row.dimensionValues) = 0
HasShortMetrics(row) == Len(row.metricValues) < NumMetrics

\* C9: process_ga4_response never fails on a row without a dimension value:
\* such a row gets the label "Unknown" and the aggregation of all the rows
\* completes (every row has its entry in the channel list).
C9_NoDimensionDefaulted ==
    (pc = "agg_done" /\ \E i \in DOMAIN raw_data.rows : HasNoDimension(raw_data.rows[i]))
        => /\ ~IsRaised(processed_data)
           /\ EntriesMatchRows(raw_data.rows, processed_data.channels)

\* C10: for every row with k < 5 metric values the call does not fail, the
\* fields at positions 0..k-1 take the row's values and the fields at
\* positions >= k are 0.
C10_ShortMetricsZeroFilled ==
    (pc = "agg_done" /\ \E i \in DOMAIN raw_data.rows : HasShortMetrics(raw_data.rows[i]))
        => /\ ~IsRaised(processed_data)
           /\ EntriesMatchRows(raw_data.rows, processed_data.channels)

\* The zero fill of C10 where every row carries a dimension value: the call
\* completes and short metric lists are filled with 0.
ShortMetricsZeroFilledWhenLabelled ==
    (pc = "agg_done" /\ \A i \in DOMAIN raw_data.rows : ~HasNoDimension(raw_data.rows[i]))
        => /\ ~IsRaised(processed_data)
           /\ EntriesMatchRows(raw_data.rows, processed_data.channels)

\* process_ga4_response returned a snapshot for an answer with rows
AggReturned ==
    /\ pc = "agg_done"
    /\ \A i \in DOMAIN raw_data.rows : ~HasNoDimension(raw_data.rows[i])

\* C13: the channel list returned by process_ga4_response is non-increasing
\* by sessions, and entries with equal sessions are in the order in which
\* their rows come in the input.
C13_SortedStable ==
    AggReturned =>
        LET rows == raw_data.rows
            channels == processed_data.channels
        IN  /\ \A i, j \in DOMAIN channels :
                  i < j => channels[i].sessions >= channels[j].sessions
            /\ \E p \in Bijections(Len(rows)) :
                  /\ \A i \in DOMAIN rows : channels[p[i]] = ExpectedEntry(rows[i])
                  /\ \A i, j \in DOMAIN rows :
                        (i < j /\ ExpectedEntry(rows[i]).sessions
                                     = ExpectedEntry(rows[j]).sessions) => p[i] < p[j]

\* two distinguishable rows with the same positive sessions, in input order
C13_Witness ==
    /\ AggReturned
    /\ Len(raw_data.rows) >= 2
    /\ \E i, j \in DOMAIN processed_data.channels :
          /\ i < j
          /\ processed_data.channels[i].sessions = processed_data.channels[j].sessions
          /\ processed_data.channels[i] # processed_data.channels[j]
          /\ processed_data.channels[i] = ExpectedEntry(raw_data.rows[1])
          /\ processed_data.channels[j] = ExpectedEntry(raw_data.rows[2])
    /\ processed_data.channels[1].sessions > 0

RECURSIVE Total(_, _, _)
\* the sum of a field over the entries of a list from position i on
Total(list, field, i) ==
    IF i > Len(list) THEN 0 ELSE list[i][field] + Total(list, field, i + 1)

\* C14: process_ga4_response does not merge rows: the channel list has one
\* entry per input row, rows with the same label stay separate entries, and
\* each total is the sum of its field over all entries of the channel list.
C14_NoMergeTotalsAreSums ==
    AggReturned =>
        /\ Len(processed_data.channels) = Len(raw_data.rows)
        /\ EntriesMatchRows(raw_data.rows, processed_data.channels)
        /\ processed_data.total_sessions = Total(processed_data.channels, "sessions", 1)
        /\ processed_data.total_conversions = Total(processed_data.channels, "conversions", 1)
        /\ processed_data.total_revenue = Total(processed_data.channels, "revenue", 1)

\* two rows with the label "Email" and different metrics: two entries, and
\* totals that count both
C14_Witness ==
    /\ AggReturned
    /\ Len(raw_data.rows) = 2
    /\ raw_data.rows[1].dimensionValues[1].value = "Email"
    /\ raw_data.rows[2].dimensionValues[1].value = "Email"
    /\ Len(processed_data.channels) = 2
    /\ processed_data.channels[1].sessions = 12
    /\ processed_data.channels[2].sessions = 2
    /\ processed_data.total_sessions = 14
    /\ processed_data.total_conversions > 0

\* the rows whose label is in a set of labels
RowsLabelled(rows, labels) ==
    { i \in DOMAIN rows : rows[i].dimensionValues[1].value \in labels }

Min(S) == CHOOSE x \in S : \A y \in S : x <= y
Max(S) == CHOOSE x \in S : \A y \in S : x >= y

\* the first entry of a list whose label is in a set of labels
FirstLabelled(list, labels) ==
    list[Min({ i \in DOMAIN list : list[i].channel \in labels })]

\* C12 as stated: email_focus is the first entry whose label contains
\* "email" (the first matching row of the input, or the first matching entry
\* of the sorted channel list), and it is empty only when no label matches.
C12_EmailFirstMatch ==
    AggReturned =>
        LET rows == raw_data.rows
            hits == RowsLabelled(rows, EmailLabels)
        IN  IF hits = {} THEN processed_data.email_focus = EmptyDict
            ELSE \/ processed_data.email_focus = ExpectedEntry(rows[Min(hits)])
                 \/ processed_data.email_focus
                        = FirstLabelled(processed_data.channels, EmailLabels)

\* C12 amended: email_focus is the entry of the last row, in input order,
\* whose label contains "email"; it is empty only when no label matches.
C12_EmailLastMatch ==
    AggReturned =>
        LET rows == raw_data.rows
            hits == RowsLabelled(rows, EmailLabels)
        IN  IF hits = {} THEN processed_data.email_focus = EmptyDict
            ELSE processed_data.email_focus = ExpectedEntry(rows[Max(hits)])

\* two rows labelled "Email", the larger first: the spotlight is the second
C12_Witness ==
    /\ AggReturned
    /\ Len(raw_data.rows) = 2
    /\ RowsLabelled(raw_data.rows, EmailLabels) = {1, 2}
    /\ ExpectedEntry(raw_data.rows[1]).sessions = 12
    /\ ExpectedEntry(raw_data.rows[2]).sessions = 2
    /\ processed_data.email_focus = ExpectedEntry(raw_data.rows[2])
    /\ processed_data.channels[1] = ExpectedEntry(raw_data.rows[1])

\* C20 as stated: social_focus is the entry of the last row, in input
\* order, whose label contains "social", "facebook" or "instagram"; one entry
\* per spotlight is retained.
C20_SocialLastMatch ==
    AggReturned =>
        LET rows == raw_data.rows
            hits == RowsLabelled(rows, SocialLabels)
        IN  IF hits = {} THEN processed_data.social_focus = EmptyDict
            ELSE processed_data.social_focus = ExpectedEntry(rows[Max(hits)])

\* C20 amended: social_focus is the entry of the last row, in input order,
\* whose label contains "social", "facebook" or "instagram" and does not
\* contain "email" (such a row goes to the email spotlight only); it is
\* empty when there is no such row.
C20_SocialLastMatchNotEmail ==
    AggReturned =>
        LET rows == raw_data.rows
            hits == RowsLabelled(rows, SocialLabels \ EmailLabels)
        IN  IF hits = {} THEN processed_data.social_focus = EmptyDict
            ELSE processed_data.social_focus = ExpectedEntry(rows[Max(hits)])

\* "Organic Social" then "Facebook Ads": the spotlight is the second row
C20_Witness ==
    /\ AggReturned
    /\ Len(raw_data.rows) = 2
    /\ raw_data.rows[1].dimensionValues[1].value = "Organic Social"
    /\ raw_data.rows[2].dimensionValues[1].value = "Facebook Ads"
    /\ processed_data.social_focus = ExpectedEntry(raw_data.rows[2])
    /\ processed_data.social_focus.channel = "Facebook Ads"

-----------------------------------------------------------------------------
(* Evolution harness: two analytics answers through the aggregation, the   *)
(* evolution map and the renderer                                          *)

RECIPIENTS ==
    << [local |-> "mjacobson", domain |-> "avisia.fr"],
       [local |-> "mnunez", domain |-> "avisia.fr"],
       [local |-> "adejullien", domain |-> "avisia.fr"],
       [local |-> "btran", domain |-> "avisia.fr"],
       [local |-> "gbertin", domain |-> "avisia.fr"] >>

EvoLabels == {"Email", "Organic Social"}

\* sessions and conversions strings of the sample rows
EvoCounts == { << <<0>>, <<0>> >>, << <<2>>, <<1>> >>, << <<3>>, <<0>> >> }

\* server rows with one dimension value and the five metric values
\* and one row of a second channel whose label holds "email"
EvoApiRows ==
    { [dimensions |-> <<l>>, metrics |-> <<c[1], c[2], <<0>>, <<1>>, <<6, 0>> >>] :
        l \in EvoLabels, c \in EvoCounts }
    \cup { [dimensions |-> <<"EMAIL Social">>,
            metrics |-> << <<2>>, <<1>>, <<0>>, <<1>>, <<6, 0>> >>] }

InitEvo ==
    /\ pc = "evo_process"
    /\ today = None /\ period = None /\ prev_period = None
    /\ api_result = None
    /\ raw_data \in { run_report([rows |-> rs]) : rs \in SeqsUpTo(EvoApiRows, MaxRows) }
    /\ prev_raw_data \in { run_report([rows |-> rs]) : rs \in SeqsUpTo(EvoApiRows, MaxPrevRows) }
    /\ processed_data = None
    /\ campaign_data = <<>>
    /\ prev_processed_data = None
    /\ evolution_rates = None
    /\ html_report = None
    /\ JobIdle

\* process_ga4_response on both answers
EvoProcess ==
    /\ pc = "evo_process"
    /\ processed_data' = process_ga4_response(raw_data)
    /\ prev_processed_data' = process_ga4_response(prev_raw_data)
    /\ pc' = "evo_rates"
    /\ UNCHANGED <<dateVars, api_result, raw_data, prev_raw_data, campaign_data,
                   evolution_rates, html_report, jobVars>>

\* calculate_evolution_rates on the two snapshots
EvoRates ==
    /\ pc = "evo_rates"
    /\ evolution_rates' = calculate_evolution_rates(processed_data, prev_processed_data)
    /\ pc' = "evo_render"
    /\ UNCHANGED <<dateVars, api_result, raw_data, prev_raw_data, processed_data, campaign_data,
                   prev_processed_data, html_report, jobVars>>

\* generate_html_report for the first recipient
EvoRender ==
    /\ pc = "evo_render"
    /\ html_report' = generate_html_report(processed_data, RECIPIENTS[1],
                                           prev_processed_data, <<>>)
    /\ pc' = "evo_done"
    /\ UNCHANGED <<dateVars, api_result, raw_data, prev_raw_data, processed_data, campaign_data,
                   prev_processed_data, evolution_rates, jobVars>>

NextEvo == EvoProcess \/ EvoRates \/ EvoRender

SpecEvo == InitEvo /\ [][NextEvo]_vars

\* labels of a channel list
LabelsOf(channels) == { channels[i].channel : i \in DOMAIN channels }

\* the sessions of a label in a channel list: those of its entry; of the last
\* entry in list order when several rows carry the label; 0 when none does
SessionsOf(channels, label) ==
    LET hits == { i \in DOMAIN channels : channels[i].channel = label }
    IN  IF hits = {} THEN 0
        ELSE channels[CHOOSE i \in hits : \A j \in hits : j <= i].sessions

\* the rule of the claims: delta in percent against a positive previous value,
\* 100 for a value that is new, 0 when there is nothing in either period
RuleValue(current, previous) ==
    IF previous > 0 THEN Rat(100 * current - 100 * previous, previous)
    ELSE IF current > 0 THEN [num |-> 100, den |-> 1]
    ELSE [num |-> 0, den |-> 1]

EvoRatesDone == pc \in {"evo_render", "evo_done"}

\* C7: for every channel of the current snapshot the evolution map holds
\* (current - previous) / previous * 100 when the channel had previous
\* sessions > 0, exactly 100 when it had none (absent or zero) and has
\* current sessions > 0, and 0 when it has no sessions in either period.
C7_EvolutionRule ==
    EvoRatesDone =>
        \A label \in LabelsOf(processed_data.channels) :
            /\ label \in DOMAIN evolution_rates
            /\ evolution_rates[label] =
                   RuleValue(SessionsOf(processed_data.channels, label),
                             SessionsOf(prev_processed_data.channels, label))

\* the three cases of C7 happen: a delta of 50 percent (2 -> 3 sessions), a
\* new channel at 100 and a channel at 0 in both periods
C7_Witness ==
    /\ EvoRatesDone
    /\ \E a, b \in LabelsOf(processed_data.channels) :
          /\ a # b
          /\ SessionsOf(prev_processed_data.channels, a) = 2
          /\ SessionsOf(processed_data.channels, a) = 3
          /\ evolution_rates[a] = [num |-> 50, den |-> 1]
          /\ b \notin LabelsOf(prev_processed_data.channels)
          /\ evolution_rates[b] = [num |-> 100, den |-> 1]

\* C19: the keys of the map returned by calculate_evolution_rates are exactly
\* the channel labels of the current snapshot: every current channel has an
\* entry and a channel of the previous snapshot alone has none.
C19_KeysAreCurrentLabels ==
    EvoRatesDone => DOMAIN evolution_rates = LabelsOf(processed_data.channels)

\* a channel with sessions in the previous snapshot only, beside a current one
C19_Witness ==
    /\ EvoRatesDone
    /\ "Email" \in LabelsOf(processed_data.channels)
    /\ "Organic Social" \notin LabelsOf(processed_data.channels)
    /\ SessionsOf(prev_processed_data.channels, "Organic Social") = 3
    /\ DOMAIN evolution_rates = {"Email"}

-----------------------------------------------------------------------------
(* The job: POST /run (main.run_analysis) and run_monthly_analysis         *)

\* a call made to a collaborator: the service, what was asked, and whether
\* the collaborator did it
Call(svc, arg, ok) == [svc |-> svc, arg |-> arg, ok |-> ok]

JobRowEmail ==
    [dimensions |-> <<"Email">>, metrics |-> << <<2>>, <<1>>, <<0>>, <<1>>, <<6, 0>> >>]
JobRowSocial ==
    [dimensions |-> <<"Organic Social">>, metrics |-> << <<3>>, <<0>>, <<0>>, <<1>>, <<4, 5>> >>]
JobRowNoDimension ==
    [dimensions |-> <<>>, metrics |-> << <<1>>, <<0>>, <<0>>, <<1>>, <<7>> >>]

\* what the analytics server may do with a channel query
ChannelAnswers ==
    { ServerError,
      [rows |-> <<>>],
      [rows |-> <<JobRowEmail>>],
      [rows |-> <<JobRowEmail, JobRowSocial>>],
      [rows |-> <<JobRowSocial, JobRowNoDimension>>] }

\* what the analytics server may do with the campaign query
CampaignAnswers ==
    { ServerError,
      [rows |-> <<>>],
      [rows |-> << [dimensions |-> <<"(not set)">>, metrics |-> << <<4>> >>],
                   [dimensions |-> <<"Spring Sale">>, metrics |-> << <<3>> >>] >>],
      [rows |-> << [dimensions |-> <<>>, metrics |-> << <<1>> >>] >>] }

\* what the narrative service may do with the prompt
GeminiReplies ==
    { [error |-> "ServiceUnavailable"],
      [text |-> << <<"#", "#", "#", " ", "Points", " ", "forts">>,
                   <<"*", " ", "*", "*", "Email", "*", "*", " ", "progresse">>,
                   <<"-", " ", "Social", " ", "stable">>,
                   <<>>,
                   <<"Recommandations">> >>] }

InitJob ==
    /\ pc = "idle"
    /\ today = None /\ period = None /\ prev_period = None
    /\ api_result = None
    /\ raw_data = None
    /\ prev_raw_data = None
    /\ processed_data = None
    /\ campaign_data = <<>>
    /\ prev_processed_data = None
    /\ evolution_rates = None
    /\ html_report = None
    /\ JobIdle

\* the dates at which the job runs in the model
JobDates == { <<2025, 1, 15>>, <<2024, 3, 31>> }

\* POST /run: run_analysis calls run_monthly_analysis, which derives the
\* reporting period from the date of the day
Trigger ==
    /\ pc = "idle"
    /\ \E now \in JobDates :
          /\ today' = now
          /\ period' = current_period(now)
    /\ pc' = "fetch_current"
    /\ UNCHANGED <<prev_period, api_result, raw_data, prev_raw_data, processed_data,
                   campaign_data, prev_processed_data, evolution_rates, html_report,
                   jobVars>>

\* the "no data" test that never stops the job
no_data_to_report_never(processed) == FALSE

\* the "no data" test inverted: it stops the job when there are channels
no_data_to_report_inverted(processed) ==
    ~(~Truthy(processed) \/ Get(processed, "channels", <<>>) = <<>>)

\* if not processed_data or not processed_data.get("channels")
no_data_to_report(processed) ==
    ~Truthy(processed) \/ Get(processed, "channels", <<>>) = <<>>

\* an exception raised inside the try of run_monthly_analysis is logged and
\* raised again: the function ends with it
Propagate(kind) ==
    /\ pc' = "raised"
    /\ exc' = kind

\* the current-period channel query, its aggregation and the "no data" exit
FetchCurrent ==
    /\ pc = "fetch_current"
    /\ \E answer \in ChannelAnswers :
         LET raw == run_report(answer)
             processed == process_ga4_response(raw)
         IN  /\ calls' = Append(calls, Call("ga4", "current_channels", ~IsServerError(answer)))
             /\ IF IsRaised(raw)
                THEN /\ Propagate(raw.raised)
                     /\ UNCHANGED <<raw_data, processed_data, result>>
                ELSE /\ raw_data' = raw
                     /\ IF IsRaised(processed)
                        THEN /\ Propagate(processed.raised)
                             /\ UNCHANGED <<processed_data, result>>
                        ELSE /\ processed_data' = processed
                             /\ IF no_data_to_report(processed)
                                THEN /\ pc' = "returned"
                                     /\ result' = None
                                     /\ exc' = exc
                                ELSE /\ pc' = "fetch_campaign"
                                     /\ UNCHANGED <<result, exc>>
    /\ UNCHANGED <<dateVars, api_result, prev_raw_data, campaign_data, prev_processed_data,
                   evolution_rates, html_report, campaign_raw, insights,
                   insights_html, stored, save_success, idx, attempts, outbox,
                   response>>

\* the campaign query and process_campaign_response
FetchCampaign ==
    /\ pc = "fetch_campaign"
    /\ \E answer \in CampaignAnswers :
         LET raw == run_report(answer)
             ranked == process_campaign_response(raw)
         IN  /\ calls' = Append(calls, Call("ga4", "campaigns", ~IsServerError(answer)))
             /\ IF IsRaised(raw)
                THEN /\ Propagate(raw.raised)
                     /\ UNCHANGED <<campaign_raw, campaign_data>>
                ELSE /\ campaign_raw' = raw
                     /\ IF CampaignRaises(raw)
                        THEN /\ Propagate(ranked.raised)
                             /\ UNCHANGED campaign_data
                        ELSE /\ campaign_data' = ranked
                             /\ pc' = "fetch_previous"
                             /\ exc' = exc
    /\ UNCHANGED <<dateVars, api_result, raw_data, prev_raw_data, processed_data,
                   prev_processed_data, evolution_rates, html_report, insights,
                   insights_html, stored, save_success, idx, attempts, outbox,
                   result, response>>

\* the previous-period channel query, its aggregation and the evolution map
FetchPrevious ==
    /\ pc = "fetch_previous"
    /\ \E answer \in ChannelAnswers :
         LET raw == run_report(answer)
             processed == process_ga4_response(raw)
         IN  /\ calls' = Append(calls, Call("ga4", "previous_channels", ~IsServerError(answer)))
             /\ IF IsRaised(raw)
                THEN /\ Propagate(raw.raised)
                     /\ UNCHANGED <<prev_raw_data, prev_processed_data, evolution_rates>>
                ELSE /\ prev_raw_data' = raw
                     /\ IF IsRaised(processed)
                        THEN /\ Propagate(processed.raised)
                             /\ UNCHANGED <<prev_processed_data, evolution_rates>>
                        ELSE /\ prev_processed_data' = processed
                             /\ evolution_rates' =
                                    calculate_evolution_rates(processed_data, processed)
                             /\ pc' = "insights"
                             /\ exc' = exc
    /\ prev_period' = previous_period(period.start)
    /\ UNCHANGED <<today, period, api_result, raw_data, processed_data, campaign_data,
                   html_report,
                   campaign_raw, insights, insights_html, stored, save_success, idx,
                   attempts, outbox, result, response>>

\* the narrative request
GenerateInsights ==
    /\ pc = "insights"
    /\ \E reply \in GeminiReplies :
         /\ calls' = Append(calls, Call("gemini", "generate_content", "error" \notin DOMAIN reply))
         /\ insights' = generate_insights_with_gemini(reply)
    /\ pc' = "save"
    /\ UNCHANGED <<dateVars, api_result, raw_data, prev_raw_data, processed_data, campaign_data,
                   prev_processed_data, evolution_rates, html_report, campaign_raw,
                   insights_html, stored, save_success, idx, attempts, outbox,
                   result, exc, response>>

\* the snapshot write, then markdown_to_html(insights)
SaveSnapshot ==
    /\ pc = "save"
    /\ \E bucket_ok \in BOOLEAN :
         LET saved == save_to_cloud_storage(processed_data, insights, bucket_ok)
         IN  /\ calls' = Append(calls, Call("storage", "upload", bucket_ok))
             /\ IF IsRaised(saved)
                THEN /\ Propagate(saved.raised)
                     /\ UNCHANGED <<stored, save_success, insights_html>>
                ELSE /\ stored' = stored \o saved.written
                     /\ save_success' = saved.returned
                     /\ insights_html' = markdown_to_html(insights)
                     /\ pc' = "deliver"
                     /\ exc' = exc
    /\ idx' = 1
    /\ UNCHANGED <<dateVars, api_result, raw_data, prev_raw_data, processed_data, campaign_data,
                   prev_processed_data, evolution_rates, html_report, campaign_raw,
                   insights, attempts, outbox, result, response>>

\* the loop's except clause raising the exception again
on_recipient_exception_reraise == "raised"

\* except Exception as e: logger.error(...) in the loop over RECIPIENTS:
\* where the job goes after a recipient's render or send raised
on_recipient_exception == "deliver"

Attempt(to, outcome, body) == [to |-> to, outcome |-> outcome, body |-> body]

\* one iteration of the loop: the recipient's document is rendered and
\* handed to send_email_simple
DeliverSent ==
    /\ pc = "deliver" /\ idx <= Len(RECIPIENTS)
    /\ \E gmail_ok \in BOOLEAN :
         LET recipient == RECIPIENTS[idx]
             report == generate_html_report(processed_data, recipient,
                                            prev_processed_data, campaign_data)
             email_body == splice_insights(report, insights_html)
             sending == send_email_simple(recipient, email_body, gmail_ok)
         IN  /\ html_report' = report
             /\ calls' = Append(calls, Call("gmail", recipient.local, gmail_ok))
             /\ IF IsRaised(sending)
                THEN /\ attempts' = Append(attempts, Attempt(recipient, "raised", email_body))
                     /\ outbox' = outbox
                     /\ pc' = on_recipient_exception
                ELSE /\ attempts' = Append(attempts,
                                           Attempt(recipient, sending.returned.status, email_body))
                     /\ outbox' = outbox \o sending.sent
                     /\ pc' = "deliver"
    /\ idx' = idx + 1
    /\ exc' = IF pc' = "raised" THEN "Exception" ELSE exc
    /\ UNCHANGED <<dateVars, api_result, raw_data, prev_raw_data, processed_data, campaign_data,
                   prev_processed_data, evolution_rates, campaign_raw, insights,
                   insights_html, stored, save_success, result, response>>

\* one iteration of the loop in which generate_html_report (or the splice)
\* raises: the except clause of the loop logs it
DeliverRenderRaises ==
    /\ pc = "deliver" /\ idx <= Len(RECIPIENTS)
    /\ attempts' = Append(attempts, Attempt(RECIPIENTS[idx], "render_raised", None))
    /\ pc' = on_recipient_exception
    /\ idx' = idx + 1
    /\ exc' = IF pc' = "raised" THEN "Exception" ELSE exc
    /\ UNCHANGED <<dateVars, api_result, raw_data, prev_raw_data, processed_data, campaign_data,
                   prev_processed_data, evolution_rates, html_report, calls,
                   campaign_raw, insights, insights_html, stored, save_success,
                   outbox, result, response>>

\* the loop is over: run_monthly_analysis returns its summary
Finish ==
    /\ pc = "deliver" /\ idx > Len(RECIPIENTS)
    /\ result' = [status |-> "success",
                  period |-> period,
                  total_sessions |-> processed_data.total_sessions,
                  recipients |-> RECIPIENTS]
    /\ pc' = "returned"
    /\ UNCHANGED <<dateVars, api_result, raw_data, prev_raw_data, processed_data, campaign_data,
                   prev_processed_data, evolution_rates, html_report, calls,
                   campaign_raw, insights, insights_html, stored, save_success, idx,
                   attempts, outbox, exc, response>>

\* run_analysis: jsonify({'status': 'success', 'result': result}), 200
RespondSuccess ==
    /\ pc = "returned"
    /\ response' = [code |-> 200, status |-> "success", result |-> result]
    /\ pc' = "responded"
    /\ UNCHANGED <<dateVars, api_result, raw_data, prev_raw_data, processed_data, campaign_data,
                   prev_processed_data, evolution_rates, html_report, calls,
                   campaign_raw, insights, insights_html, stored, save_success, idx,
                   attempts, outbox, result, exc>>

\* run_analysis: except Exception: jsonify({'status': 'error', ...}), 500
RespondError ==
    /\ pc = "raised"
    /\ response' = [code |-> 500, status |-> "error", result |-> None]
    /\ pc' = "responded"
    /\ UNCHANGED <<dateVars, api_result, raw_data, prev_raw_data, processed_data, campaign_data,
                   prev_processed_data, evolution_rates, html_report, calls,
                   campaign_raw, insights, insights_html, stored, save_success, idx,
                   attempts, outbox, result, exc>>

Next ==
    \/ Trigger
    \/ FetchCurrent
    \/ FetchCampaign
    \/ FetchPrevious
    \/ GenerateInsights
    \/ SaveSnapshot
    \/ DeliverSent
    \/ DeliverRenderRaises
    \/ Finish
    \/ RespondSuccess
    \/ RespondError

Spec == InitJob /\ [][Next]_vars

-----------------------------------------------------------------------------
(* Claims on the job *)

Failed(svc) == \E i \in DOMAIN calls : calls[i].svc = svc /\ ~calls[i].ok
Called(svc) == \E i \in DOMAIN calls : calls[i].svc = svc
Ended == pc \in {"returned", "responded"}

\* a delivery attempt was made for every recipient, in the order of the list
AllRecipientsAttempted ==
    /\ Len(attempts) = Len(RECIPIENTS)
    /\ \A i \in DOMAIN attempts : attempts[i].to = RECIPIENTS[i]

\* C1: in run_monthly_analysis a delivery failure (render or send) for one
\* recipient never prevents the attempt for a later one: the loop goes on
\* with the next recipient, every recipient gets its attempt, and the job ends
\* without raising (the trigger answers 200).
C1_DeliveryFailuresIsolated ==
    /\ \A i \in DOMAIN attempts : attempts[i].to = RECIPIENTS[i]
    /\ attempts # <<>> => exc = "none" /\ pc # "raised"
    /\ pc = "deliver" => idx = Len(attempts) + 1
    /\ (attempts # <<>> /\ Ended) => AllRecipientsAttempted
    /\ (attempts # <<>> /\ pc = "responded") => response.code = 200

\* a render failure, then a send failure, then a delivered message, in one run
C1_Witness ==
    /\ pc = "responded"
    /\ response.code = 200
    /\ AllRecipientsAttempted
    /\ attempts[1].outcome = "render_raised"
    /\ attempts[2].outcome = "error"
    /\ attempts[3].outcome = "success"
    /\ attempts[4].outcome = "error"
    /\ attempts[5].outcome = "success"

CurrentAnswerEmpty == ~IsNone(raw_data) /\ raw_data.rows = <<>>

\* C2: when the current-period channel query returns no row, the job ends
\* successfully (it never raises; /run answers 200 with status success) and
\* neither the storage nor the mail collaborator is invoked in that run.
C2_EmptyCurrentEndsQuietly ==
    CurrentAnswerEmpty =>
        /\ exc = "none" /\ pc \in {"returned", "responded"}
        /\ ~Called("storage") /\ ~Called("gmail")
        /\ stored = <<>> /\ outbox = <<>> /\ attempts = <<>>
        /\ pc = "responded" => response.code = 200 /\ response.status = "success"

C2_Witness ==
    /\ CurrentAnswerEmpty
    /\ pc = "responded"
    /\ response.code = 200
    /\ Len(calls) = 1

\* C3: if one of the three analytics queries fails, the failure leaves
\* run_monthly_analysis, the trigger answers 500, and the run writes no
\* snapshot and sends no mail.
C3_QueryFailureIsFatal ==
    Failed("ga4") =>
        /\ pc \in {"raised", "responded"}
        /\ exc = "HTTPError"
        /\ ~Called("storage") /\ ~Called("gmail") /\ ~Called("gemini")
        /\ stored = <<>> /\ outbox = <<>>
        /\ pc = "responded" => response.code = 500 /\ response.status = "error"

\* the third query (previous period) fails after two that succeeded
C3_Witness ==
    /\ pc = "responded"
    /\ Len(calls) = 3
    /\ calls[1].ok /\ calls[2].ok /\ ~calls[3].ok
    /\ response.code = 500

\* C4: a failure of the snapshot write is absorbed: save_to_cloud_storage
\* returns False instead of raising, the job goes on to attempt the delivery
\* to every recipient and ends without raising.
C4_StorageFailureAbsorbed ==
    Failed("storage") =>
        /\ exc = "none" /\ pc # "raised"
        /\ ~save_success
        /\ stored = <<>>
        /\ Ended => AllRecipientsAttempted
        /\ pc = "responded" => response.code = 200

C4_Witness ==
    /\ Failed("storage")
    /\ pc = "responded"
    /\ response.code = 200
    /\ AllRecipientsAttempted
    /\ Len(outbox) = Len(RECIPIENTS)

\* the fallback text as the formatter renders it: one paragraph
FallbackParagraph == << [tag |-> "p", content |-> FallbackInsights[1]] >>

\* C5: a failure of the narrative service is recovered locally:
\* generate_insights_with_gemini returns the fixed fallback string, and the job
\* continues with it as the narrative: it is the narrative of the stored
\* snapshot and the narrative spliced into every recipient's document.
C5_NarrativeFallback ==
    Failed("gemini") =>
        /\ exc = "none" /\ pc # "raised"
        /\ insights = FallbackInsights
        /\ \A i \in DOMAIN stored : stored[i].ai_insights = FallbackInsights
        /\ \A i \in DOMAIN attempts :
               attempts[i].outcome # "render_raised"
                   => attempts[i].body.ai_analysis = <<FallbackParagraph>>
        /\ \A i \in DOMAIN outbox : outbox[i].body.ai_analysis = <<FallbackParagraph>>
        /\ Ended => AllRecipientsAttempted

C5_Witness ==
    /\ Failed("gemini")
    /\ pc = "responded"
    /\ Len(stored) = 1
    /\ Len(outbox) = Len(RECIPIENTS)

\* every row of a converted answer carries a dimension value
WellFormed(raw) == IsNone(raw) \/ ~CampaignRaises(raw)

\* no collaborator failed so far: every call was served, every answer of the
\* analytics source has the shape of its interface, no rendering raised
NoFailureSoFar ==
    /\ \A i \in DOMAIN calls : calls[i].ok
    /\ WellFormed(raw_data) /\ WellFormed(campaign_raw) /\ WellFormed(prev_raw_data)
    /\ \A i \in DOMAIN attempts : attempts[i].outcome = "success"

ExpectedCalls ==
    << Call("ga4", "current_channels", TRUE),
       Call("ga4", "campaigns", TRUE),
       Call("ga4", "previous_channels", TRUE),
       Call("gemini", "generate_content", TRUE),
       Call("storage", "upload", TRUE) >>
    \o [i \in 1..Len(RECIPIENTS) |-> Call("gmail", RECIPIENTS[i].local, TRUE)]

IsPrefix(s, t) == Len(s) <= Len(t) /\ s = SubSeq(t, 1, Len(s))

-----------------------------------------------------------------------------
(* The aggregates after they are built *)

\* the documents rendered so far, by position in the loop
Rendered == { i \in DOMAIN attempts : attempts[i].outcome # "render_raised" }

DocumentOf(i) == attempts[i].body.report

\* a document without its greeting
WithoutGreeting(doc) == [f \in DOMAIN doc \ {"greeting"} |-> doc[f]]

\* the figures of a channel that a table row and a stored entry both hold
RowFigures(r) ==
    [channel |-> r.channel, sessions |-> r.sessions, conversions |-> r.conversions,
     engagement_rate |-> r.engagement_rate]

\* the figures of a spotlight card, <<>> when there is none
CardFigures(c) ==
    IF c = <<>> THEN <<>>
    ELSE [sessions |-> c.sessions, conversions |-> c.conversions,
          engagement_rate |-> c.engagement_rate]

\* a document shows the totals, the channels and the spotlights of a snapshot
ShowsSnapshot(doc, snapshot) ==
    /\ doc.total_sessions = snapshot.total_sessions
    /\ doc.total_conversions = snapshot.total_conversions
    /\ Len(doc.channel_rows) = Len(snapshot.channels)
    /\ \A k \in DOMAIN doc.channel_rows :
          RowFigures(doc.channel_rows[k]) = RowFigures(snapshot.channels[k])
    /\ CardFigures(doc.email_section) = CardFigures(snapshot.email_focus)
    /\ CardFigures(doc.social_section) = CardFigures(snapshot.social_focus)

\* the documents are the same but for the greeting, show the current
\* snapshot and the campaign ranking, and show what the stored snapshot holds
SameValuesEverywhere ==
    /\ \A i, j \in Rendered :
          /\ WithoutGreeting(DocumentOf(i)) = WithoutGreeting(DocumentOf(j))
          /\ i # j => DocumentOf(i).greeting # DocumentOf(j).greeting
    /\ \A i \in Rendered :
          /\ ShowsSnapshot(DocumentOf(i), processed_data)
          /\ DocumentOf(i).campaign_rows = campaign_data
          /\ \A b \in DOMAIN stored : ShowsSnapshot(DocumentOf(i), stored[b])
    /\ \A b \in DOMAIN stored :
          /\ stored[b].channels = processed_data.channels
          /\ stored[b].total_sessions = processed_data.total_sessions
          /\ stored[b].total_conversions = processed_data.total_conversions

\* the steps from the evolution calculation to the last delivery
AfterAggregation == pc \in {"fetch_previous", "insights", "save", "deliver"}

-----------------------------------------------------------------------------
(* The result of a run whose queries were served *)

\* the three analytics queries were made and served
QueriesSucceeded ==
    /\ Cardinality({ i \in DOMAIN calls : calls[i].svc = "ga4" }) = 3
    /\ \A i \in DOMAIN calls : calls[i].svc = "ga4" => calls[i].ok

HasChannels ==
    "channels" \in DOMAIN processed_data /\ processed_data.channels # <<>>

\* the run does not raise, returns the summary with the full recipient list,
\* and the trigger answers 200 with it
SuccessResult ==
    /\ pc # "raised" /\ exc = "none"
    /\ Ended =>
          /\ AllRecipientsAttempted
          /\ result = [status |-> "success", period |-> period,
                       total_sessions |-> processed_data.total_sessions,
                       recipients |-> RECIPIENTS]
    /\ pc = "responded" =>
          response = [code |-> 200, status |-> "success", result |-> result]

\* C26: whenever the three analytics queries succeed and the current
\* snapshot has at least one channel, run_monthly_analysis returns a result
\* with status "success" and the full recipient list, whatever the outcomes
\* of the narrative request, the storage write and the mail sends, and the
\* trigger endpoint answers 200.
C26_SuccessWhateverDeliveries ==
    (QueriesSucceeded /\ HasChannels) => SuccessResult

\* the same for runs in which every row of the three answers carries a
\* dimension value
SuccessWhenRowsLabelled ==
    ( /\ QueriesSucceeded /\ HasChannels
      /\ WellFormed(raw_data) /\ WellFormed(campaign_raw) /\ WellFormed(prev_raw_data) )
        => SuccessResult

\* a run of that kind in which the narrative request, the storage write and
\* every delivery failed, answered with 200
AllDeliveriesFailed ==
    /\ pc = "responded"
    /\ QueriesSucceeded /\ HasChannels
    /\ Failed("gemini") /\ Failed("storage")
    /\ \A i \in DOMAIN attempts : attempts[i].outcome \in {"error", "render_raised"}
    /\ response.code = 200

-----------------------------------------------------------------------------
(* Claims on the executive summary *)

EvoRendered == pc = "evo_done" /\ html_report.kind = "report"

\* the figure printed for an evolution value: arrow by sign, rounded percentage
Shown(value) ==
    [arrow |-> IF value.num > 0 THEN "up" ELSE IF value.num < 0 THEN "down" ELSE "flat",
     pct |-> IF value.num = 0 THEN 0 ELSE RoundHalfEven(value)]

\* the rule of the totals: delta in percent against a positive previous
\* total, 0 otherwise
TotalRuleValue(current, previous) ==
    IF previous > 0 THEN Rat(100 * current - 100 * previous, previous)
    ELSE [num |-> 0, den |-> 1]

\* C8 as stated: the evolution shown for total sessions and total
\* conversions follows the rule of the channels: delta against a previous
\* total > 0, 100 when the previous total is 0 and the current one is > 0,
\* 0 when both are 0.
C8_TotalsFollowChannelRule ==
    EvoRendered =>
        /\ html_report.total_sessions_evo =
               Shown(RuleValue(processed_data.total_sessions,
                               prev_processed_data.total_sessions))
        /\ html_report.total_conversions_evo =
               Shown(RuleValue(processed_data.total_conversions,
                               prev_processed_data.total_conversions))

\* C8 amended: the evolution shown for total sessions and total conversions
\* is the delta in percent against the previous total when that total is
\* > 0, and 0 in every other case, also when the previous total is 0 and the
\* current total is > 0.
C8_TotalsRule ==
    EvoRendered =>
        /\ html_report.total_sessions_evo =
               Shown(TotalRuleValue(processed_data.total_sessions,
                                    prev_processed_data.total_sessions))
        /\ html_report.total_conversions_evo =
               Shown(TotalRuleValue(processed_data.total_conversions,
                                    prev_processed_data.total_conversions))

\* a previous total of 0 sessions with current sessions, shown as 0; and
\* conversions going from 1 to 2, shown as +100
C8_Witness ==
    /\ EvoRendered
    /\ prev_processed_data.total_sessions = 0
    /\ processed_data.total_sessions > 0
    /\ html_report.total_sessions_evo = [arrow |-> "flat", pct |-> 0]

-----------------------------------------------------------------------------
(* Claims on the evolution shown in the channel table and the spotlights   *)

TrackedMetrics == {"sessions", "conversions", "engagement_rate"}

\* the value of a metric for a label in a channel list: that of the first
\* entry of the list that carries the label
FirstValueOf(channels, label, metric) ==
    LET hits == { i \in DOMAIN channels : channels[i].channel = label }
    IN  channels[CHOOSE i \in hits : \A j \in hits : i <= j][metric]

\* the rule of the per-metric helper between two values of one channel
HelperRule(current, previous) ==
    IF previous = 0
    THEN (IF current > 0 THEN [num |-> 100, den |-> 1] ELSE [num |-> 0, den |-> 1])
    ELSE Rat(100 * current - 100 * previous, previous)

\* C21: for every row of the channel table and each of sessions,
\* conversions and engagement_rate, get_channel_metric_evolution returns 0
\* when the previous snapshot has no channel with the row's label; otherwise,
\* between the values of the label's entries in the two snapshots, 0 when
\* previous and current are 0, 100 when previous is 0 and current is > 0,
\* and (current - previous) / previous * 100 in every other case.
C21_ChannelMetricEvolution ==
    EvoRendered =>
        \A i \in DOMAIN html_report.channel_rows : \A metric \in TrackedMetrics :
            LET label == processed_data.channels[i].channel
                previous == prev_processed_data.channels
            IN  html_report.channel_rows[i].evolution[metric] =
                    IF label \notin LabelsOf(previous) THEN [num |-> 0, den |-> 1]
                    ELSE HelperRule(FirstValueOf(processed_data.channels, label, metric),
                                    FirstValueOf(previous, label, metric))

\* a report with a row whose channel went from 2 to 3 sessions and from 1
\* to 0 conversions (+50 and -100), and a row whose channel has sessions now
\* and no entry in the previous snapshot (0)
C21_Witness ==
    /\ EvoRendered
    /\ \E i, j \in DOMAIN html_report.channel_rows :
          /\ processed_data.channels[i].channel \in LabelsOf(prev_processed_data.channels)
          /\ html_report.channel_rows[i].evolution.sessions = [num |-> 50, den |-> 1]
          /\ html_report.channel_rows[i].evolution.conversions = [num |-> -100, den |-> 1]
          /\ processed_data.channels[j].channel \notin LabelsOf(prev_processed_data.channels)
          /\ processed_data.channels[j].sessions > 0
          /\ html_report.channel_rows[j].evolution.sessions = [num |-> 0, den |-> 1]

\* the number of entries of a channel list that carry a label
Occurrences(channels, label) ==
    Cardinality({ i \in DOMAIN channels : channels[i].channel = label })

\* C24 as stated: for every channel of the current snapshot, the sessions
\* evolution of its row in the report equals the value of the channel in
\* the evolution map of the same run, new channels and repeated labels
\* included.
C24_RowEqualsMap ==
    EvoRendered =>
        \A i \in DOMAIN html_report.channel_rows :
            html_report.channel_rows[i].evolution.sessions
                = evolution_rates[processed_data.channels[i].channel]

\* C24 amended: the row's sessions evolution equals the map's value for a
\* channel whose label is carried by one entry of the current and one entry
\* of the previous snapshot. For a channel that is new in the current
\* period the row holds 0 while the map holds 100 (0 when the channel has
\* no sessions). With repeated labels the row is computed from the first
\* entries of the label in the two sorted lists, the map from the last ones.
C24_RowEqualsMapForSharedChannels ==
    EvoRendered =>
        \A i \in DOMAIN html_report.channel_rows :
            LET label == processed_data.channels[i].channel
                current == processed_data.channels
                previous == prev_processed_data.channels
                shown == html_report.channel_rows[i].evolution.sessions
            IN  /\ (Occurrences(current, label) = 1 /\ Occurrences(previous, label) = 1)
                       => shown = evolution_rates[label]
                /\ label \notin LabelsOf(previous) =>
                       /\ shown = [num |-> 0, den |-> 1]
                       /\ evolution_rates[label] =
                              IF SessionsOf(current, label) > 0
                              THEN [num |-> 100, den |-> 1] ELSE [num |-> 0, den |-> 1]
                /\ label \in LabelsOf(previous) =>
                       /\ shown = HelperRule(FirstValueOf(current, label, "sessions"),
                                             FirstValueOf(previous, label, "sessions"))
                       /\ evolution_rates[label] =
                              RuleValue(SessionsOf(current, label), SessionsOf(previous, label))

\* a channel in both snapshots whose row and map entry both hold +50, beside
\* a new channel whose row holds 0 and whose map entry holds 100
C24_Witness ==
    /\ EvoRendered
    /\ \E i, j \in DOMAIN html_report.channel_rows :
          LET a == processed_data.channels[i].channel
              b == processed_data.channels[j].channel
          IN  /\ Occurrences(prev_processed_data.channels, a) = 1
              /\ html_report.channel_rows[i].evolution.sessions = [num |-> 50, den |-> 1]
              /\ evolution_rates[a] = [num |-> 50, den |-> 1]
              /\ b \notin LabelsOf(prev_processed_data.channels)
              /\ html_report.channel_rows[j].evolution.sessions = [num |-> 0, den |-> 1]
              /\ evolution_rates[b] = [num |-> 100, den |-> 1]

Spotlights == {"email", "social"}

\* the spotlight of a snapshot, <<>> when it has none
FocusOf(snapshot, which) ==
    IF which = "email" THEN snapshot.email_focus ELSE snapshot.social_focus

\* the card of a spotlight in the report, <<>> when it is not rendered
CardOf(which) ==
    IF which = "email" THEN html_report.email_section ELSE html_report.social_section

\* the table rows of a label
RowsOf(label) ==
    { i \in DOMAIN html_report.channel_rows : processed_data.channels[i].channel = label }

\* C25 as stated: when a spotlight card is rendered, the sessions evolution
\* it shows equals the sessions evolution in the channel-table row of the
\* same channel, for every pair of current and previous snapshots.
C25_CardEqualsRow ==
    EvoRendered =>
        \A which \in Spotlights :
            CardOf(which) # <<>> =>
                \A i \in RowsOf(FocusOf(processed_data, which).channel) :
                    CardOf(which).evolution.sessions
                        = html_report.channel_rows[i].evolution.sessions

\* C25 amended: a rendered card shows the delta in percent of the
\* spotlight's sessions against the sessions of the previous snapshot's
\* spotlight when these are > 0, and 0 when they are 0 or there is no
\* previous spotlight. It equals the row's evolution when the previous
\* spotlight carries the label of the current one, has sessions > 0, and the
\* label is carried by one entry of each snapshot. With previous sessions of
\* 0 and current sessions > 0 the card shows 0 and the row 100.
C25_CardEqualsRowOnPositiveBaseline ==
    EvoRendered =>
        \A which \in Spotlights :
            LET card == CardOf(which)
                focus == FocusOf(processed_data, which)
                before == FocusOf(prev_processed_data, which)
            IN  card # <<>> =>
                  /\ card.evolution.sessions =
                         IF before = <<>> THEN [num |-> 0, den |-> 1]
                         ELSE TotalRuleValue(focus.sessions, before.sessions)
                  /\ \A i \in RowsOf(focus.channel) :
                        /\ ( /\ before # <<>>
                             /\ before.channel = focus.channel
                             /\ before.sessions > 0
                             /\ Occurrences(processed_data.channels, focus.channel) = 1
                             /\ Occurrences(prev_processed_data.channels, focus.channel) = 1 )
                              => card.evolution.sessions
                                     = html_report.channel_rows[i].evolution.sessions
                        /\ ( /\ before # <<>>
                             /\ before.channel = focus.channel
                             /\ before.sessions = 0
                             /\ focus.sessions > 0
                             /\ Occurrences(processed_data.channels, focus.channel) = 1
                             /\ Occurrences(prev_processed_data.channels, focus.channel) = 1 )
                              => /\ card.evolution.sessions = [num |-> 0, den |-> 1]
                                 /\ html_report.channel_rows[i].evolution.sessions
                                        = [num |-> 100, den |-> 1]

\* an email card and its row both at +50 (2 -> 3 sessions), beside a social
\* card at 0 whose row is at 100 (0 -> 2 sessions)
C25_Witness ==
    /\ EvoRendered
    /\ html_report.email_section # <<>>
    /\ html_report.social_section # <<>>
    /\ prev_processed_data.email_focus # <<>>
    /\ prev_processed_data.email_focus.channel = processed_data.email_focus.channel
    /\ html_report.email_section.evolution.sessions = [num |-> 50, den |-> 1]
    /\ \A i \in RowsOf(processed_data.email_focus.channel) :
          html_report.channel_rows[i].evolution.sessions = [num |-> 50, den |-> 1]
    /\ prev_processed_data.social_focus # <<>>
    /\ prev_processed_data.social_focus.sessions = 0
    /\ html_report.social_section.evolution.sessions = [num |-> 0, den |-> 1]
    /\ \A i \in RowsOf(processed_data.social_focus.channel) :
          html_report.channel_rows[i].evolution.sessions = [num |-> 100, den |-> 1]

-----------------------------------------------------------------------------
(* Campaign harness: one campaign answer through run_report and            *)
(* process_campaign_response                                               *)

\* rows of the server's campaign answer: placeholder names in several
\* spellings, names padded with whitespace, ordinary names, a row without
\* dimension
CampApiRows ==
    { [dimensions |-> <<n>>, metrics |-> << <<5>> >>] :
        n \in {"(not set)", "(NOT SET)", "(None)", "UNKNOWN", "", " (not set) ", " ",
               "Spring Sale", "Promo"} }
    \cup { [dimensions |-> <<"Spring Sale">>, metrics |-> << <<3>> >>],
           [dimensions |-> <<"Promo">>, metrics |-> <<>>],
           [dimensions |-> <<>>, metrics |-> << <<5>> >>] }

InitCamp ==
    /\ pc = "camp_query"
    /\ today = None /\ period = None /\ prev_period = None
    /\ api_result \in { [rows |-> rs] : rs \in SeqsUpTo(CampApiRows, MaxCampRows) }
    /\ raw_data = None
    /\ prev_raw_data = None
    /\ processed_data = None
    /\ campaign_data = <<>>
    /\ prev_processed_data = None
    /\ evolution_rates = None
    /\ html_report = None
    /\ JobIdle

\* GA4MCPClient.run_report on the server's campaign answer
CampRunReport ==
    /\ pc = "camp_query"
    /\ campaign_raw' = run_report(api_result)
    /\ pc' = "camp_process"
    /\ UNCHANGED <<dateVars, api_result, raw_data, prev_raw_data, processed_data, campaign_data,
                   prev_processed_data, evolution_rates, html_report, calls, insights,
                   insights_html, stored, save_success, idx, attempts, outbox, result,
                   exc, response>>

\* process_campaign_response on the converted answer
CampProcess ==
    /\ pc = "camp_process"
    /\ campaign_data' = process_campaign_response(campaign_raw)
    /\ pc' = "camp_done"
    /\ UNCHANGED <<dateVars, api_result, raw_data, prev_raw_data, processed_data,
                   prev_processed_data, evolution_rates, html_report, jobVars>>

NextCamp == CampRunReport \/ CampProcess

SpecCamp == InitCamp /\ [][NextCamp]_vars

\* process_campaign_response returned a list
CampDone == pc = "camp_done" /\ ~CampaignRaises(campaign_raw)

CampName(row) == row.dimensionValues[1].value

\* str.strip() on the names of the model's universe
StripWs(name) ==
    CASE name = " (not set) " -> "(not set)"
      [] name = " " -> ""
      [] OTHER -> name

PlaceholderNames == {"(not set)", "(none)", "unknown", ""}

\* the rows a filter on the trimmed, lower-cased name keeps
KeptTrimmed(rows) ==
    { i \in DOMAIN rows : Lower(StripWs(CampName(rows[i]))) \notin PlaceholderNames }

\* the rows a filter on the lower-cased name keeps
KeptUntrimmed(rows) ==
    { i \in DOMAIN rows : Lower(CampName(rows[i])) \notin PlaceholderNames }

CampEntry(row) ==
    [campaign |-> CampName(row), sessions |-> ExpectedMetric(row, 0)]

\* the list holds one entry for each row of kept, and nothing else
ListHoldsRows(rows, kept, list) ==
    /\ Len(list) = Cardinality(kept)
    /\ \E p \in [kept -> DOMAIN list] :
          /\ \A i, j \in kept : i # j => p[i] # p[j]
          /\ \A i \in kept : list[p[i]] = CampEntry(rows[i])

\* C11 as stated: process_campaign_response excludes every row whose name,
\* trimmed of surrounding whitespace and lower-cased, is "(not set)",
\* "(none)", "unknown" or "", and keeps every other row.
C11_FilterTrimmed ==
    CampDone => ListHoldsRows(campaign_raw.rows, KeptTrimmed(campaign_raw.rows),
                              campaign_data)

\* C11 amended: process_campaign_response excludes every row whose name,
\* lower-cased but not trimmed, is "(not set)", "(none)", "unknown" or "",
\* and keeps every other row; a placeholder padded with whitespace is kept.
C11_FilterCaseInsensitive ==
    CampDone => ListHoldsRows(campaign_raw.rows, KeptUntrimmed(campaign_raw.rows),
                              campaign_data)

\* an upper-case placeholder dropped, a padded placeholder and a name kept
C11_Witness ==
    /\ CampDone
    /\ Len(campaign_raw.rows) = 3
    /\ CampName(campaign_raw.rows[1]) = "(NOT SET)"
    /\ CampName(campaign_raw.rows[2]) = " (not set) "
    /\ CampName(campaign_raw.rows[3]) = "Spring Sale"
    /\ Len(campaign_data) = 2

\* C16: process_campaign_response keeps repeated names as separate entries
\* and returns the kept rows by descending sessions, rows with equal
\* sessions in input order.
C16_DuplicatesKeptSortedStable ==
    CampDone =>
        LET rows == campaign_raw.rows
            kept == KeptUntrimmed(rows)
        IN  /\ Len(campaign_data) = Cardinality(kept)
            /\ \E p \in [kept -> DOMAIN campaign_data] :
                  /\ \A i \in kept : campaign_data[p[i]] = CampEntry(rows[i])
                  /\ \A i, j \in kept :
                        i < j => IF CampEntry(rows[i]).sessions >= CampEntry(rows[j]).sessions
                                 THEN p[i] < p[j] ELSE p[j] < p[i]

\* "Spring Sale" with 3, "Promo" with 5, "Spring Sale" with 5: three entries,
\* the two rows with 5 sessions in input order before the row with 3
C16_Witness ==
    /\ CampDone
    /\ api_result.rows = << [dimensions |-> <<"Spring Sale">>, metrics |-> << <<3>> >>],
                            [dimensions |-> <<"Promo">>, metrics |-> << <<5>> >>],
                            [dimensions |-> <<"Spring Sale">>, metrics |-> << <<5>> >>] >>
    /\ campaign_data = << [campaign |-> "Promo", sessions |-> 5],
                          [campaign |-> "Spring Sale", sessions |-> 5],
                          [campaign |-> "Spring Sale", sessions |-> 3] >>

-----------------------------------------------------------------------------
(* Time-series harness: one answer with the dimensions date and channel    *)
(* through run_report and process_time_series_response; raw_data holds the *)
(* converted answer and processed_data the table                           *)

TsDates == { <<2024, 12, 31>>, <<2025, 1, 1>>, <<2025, 1, 2>> }

\* rows of the server's answer: date, channel and sessions; a row without
\* metric; rows with one or no dimension value
TsApiRows ==
    { [dimensions |-> <<d, c>>, metrics |-> <<m>>] :
        d \in TsDates, c \in {"Email", "Organic"}, m \in { <<1, 0>>, <<4>> } }
    \cup { [dimensions |-> << <<2025, 1, 2>>, "Organic" >>, metrics |-> <<>>],
           [dimensions |-> << <<2025, 1, 2>> >>, metrics |-> << <<4>> >>],
           [dimensions |-> <<>>, metrics |-> << <<4>> >>] }

InitTs ==
    /\ pc = "ts_query"
    /\ today = None /\ period = None /\ prev_period = None
    /\ api_result \in { [rows |-> rs] : rs \in SeqsUpTo(TsApiRows, MaxTsRows) }
    /\ raw_data = None
    /\ prev_raw_data = None
    /\ processed_data = None
    /\ campaign_data = <<>>
    /\ prev_processed_data = None
    /\ evolution_rates = None
    /\ html_report = None
    /\ JobIdle

\* GA4MCPClient.run_report on the server's answer
TsRunReport ==
    /\ pc = "ts_query"
    /\ raw_data' = run_report(api_result)
    /\ pc' = "ts_process"
    /\ UNCHANGED <<dateVars, api_result, prev_raw_data, processed_data, campaign_data,
                   prev_processed_data, evolution_rates, html_report, jobVars>>

\* process_time_series_response on the converted answer
TsProcess ==
    /\ pc = "ts_process"
    /\ processed_data' = process_time_series_response(raw_data)
    /\ pc' = "ts_done"
    /\ UNCHANGED <<dateVars, api_result, raw_data, prev_raw_data, campaign_data,
                   prev_processed_data, evolution_rates, html_report, jobVars>>

NextTs == TsRunReport \/ TsProcess

SpecTs == InitTs /\ [][NextTs]_vars

\* the rows that carry a date and a channel
TsRows(rows) == { i \in DOMAIN rows : Len(rows[i].dimensionValues) >= 2 }
TsDate(row) == row.dimensionValues[1].value
TsChannel(row) == row.dimensionValues[2].value

\* the day number of a date, for the order of the calendar
DayNumber(date) == date[1] * 10000 + date[2] * 100 + date[3]

\* the sessions of the row for a date and a channel (of the last one when
\* the answer repeats the pair), 0 when there is none
TsSessions(rows, date, channel) ==
    LET hits == { i \in TsRows(rows) : TsDate(rows[i]) = date /\ TsChannel(rows[i]) = channel }
    IN  IF hits = {} THEN 0 ELSE ExpectedMetric(rows[Max(hits)], 0)

\* C15: process_time_series_response returns a dense table: the dates are
\* the distinct dates of the input in ascending order, every channel of the
\* input has a series of len(dates) values, and the value at position i is
\* the session count of the row for (dates[i], channel), 0 when there is no
\* such row.
C15_DenseTable ==
    pc = "ts_done" =>
        LET rows == raw_data.rows
            dates == processed_data.dates
            by_channel == processed_data.by_channel
        IN  /\ { dates[i] : i \in DOMAIN dates } = { TsDate(rows[i]) : i \in TsRows(rows) }
            /\ \A i, j \in DOMAIN dates : i < j => DayNumber(dates[i]) < DayNumber(dates[j])
            /\ DOMAIN by_channel = { TsChannel(rows[i]) : i \in TsRows(rows) }
            /\ \A channel \in DOMAIN by_channel :
                  /\ Len(by_channel[channel]) = Len(dates)
                  /\ \A i \in DOMAIN dates :
                        by_channel[channel][i] = TsSessions(rows, dates[i], channel)

\* the example of the specification: ("2025-01-01", "Email") = 10 and a row
\* of "Organic" without sessions on "2025-01-02" give Email [10, 0] and
\* Organic [0, 0]
C15_Witness ==
    /\ pc = "ts_done"
    /\ processed_data.dates = << <<2025, 1, 1>>, <<2025, 1, 2>> >>
    /\ DOMAIN processed_data.by_channel = {"Email", "Organic"}
    /\ processed_data.by_channel["Email"] = <<10, 0>>
    /\ processed_data.by_channel["Organic"] = <<0, 0>>
    /\ Len(raw_data.rows) = 2

-----------------------------------------------------------------------------
(* Formatter harness: a narrative text through markdown_to_html; insights  *)
(* holds the text and insights_html the elements of the result             *)

\* lines of a narrative: bullets with "*" and "-", an indented bullet, a
\* bullet with bold text, headings, a paragraph, a paragraph in bold, an
\* empty line, a star without text, a star without space
MdLines ==
    { <<"*", " ", "a">>,
      <<"-", " ", "b">>,
      <<" ", "*", " ", "c", " ">>,
      <<"*", " ", "*", "*", "d", "*", "*">>,
      <<"#", "#", "#", " ", "Title">>,
      <<"*", "*", "e", "*", "*", " ", "f">>,
      <<>>,
      <<"*", " ">>,
      <<"*", "g">>,
      <<" ", " ">>,
      <<" ", "#", "#", " ", "h">> }

InitMd ==
    /\ pc = "md_convert"
    /\ today = None /\ period = None /\ prev_period = None
    /\ insights \in SeqsUpTo(MdLines, MaxMdLines) \ { <<>> }
    /\ api_result = None
    /\ raw_data = None
    /\ prev_raw_data = None
    /\ processed_data = None
    /\ campaign_data = <<>>
    /\ prev_processed_data = None
    /\ evolution_rates = None
    /\ html_report = None
    /\ calls = <<>>
    /\ campaign_raw = None
    /\ insights_html = <<>>
    /\ stored = <<>>
    /\ save_success = FALSE
    /\ idx = 1
    /\ attempts = <<>>
    /\ outbox = <<>>
    /\ result = None
    /\ exc = "none"
    /\ response = None

\* insights_html = markdown_to_html(insights)
MdConvert ==
    /\ pc = "md_convert"
    /\ insights_html' = markdown_to_html(insights)
    /\ pc' = "md_done"
    /\ UNCHANGED <<dateVars, api_result, raw_data, prev_raw_data, processed_data, campaign_data,
                   prev_processed_data, evolution_rates, html_report, calls,
                   campaign_raw, insights, stored, save_success, idx, attempts,
                   outbox, result, exc, response>>

NextMd == MdConvert

SpecMd == InitMd /\ [][NextMd]_vars

\* a bullet line: after leading blanks a "*" or "-", a blank, and text
BulletLine(line) ==
    \E k \in 1..Len(line) :
        /\ \A j \in 1..(k - 1) : line[j] = " "
        /\ line[k] \in {"*", "-"}
        /\ k + 1 <= Len(line) /\ line[k + 1] = " "
        /\ \E m \in (k + 2)..Len(line) : line[m] # " "

\* the lengths of the maximal runs of consecutive bullet lines, in order
RunLengths(lines) ==
    LET starts == { i \in DOMAIN lines :
                      BulletLine(lines[i]) /\ (i = 1 \/ ~BulletLine(lines[i - 1])) }
        EndOf(i) == Min({ j \in i..Len(lines) :
                            j = Len(lines) \/ ~BulletLine(lines[j + 1]) })
        RECURSIVE From(_)
        From(i) == IF i > Len(lines) THEN <<>>
                   ELSE IF i \in starts THEN <<EndOf(i) - i + 1>> \o From(EndOf(i) + 1)
                   ELSE From(i + 1)
    IN  From(1)

\* the number of elements with a tag among the first n elements
CountTag(elements, tag, n) == Cardinality({ i \in 1..n : elements[i].tag = tag })

\* the number of list containers open after the first n elements
OpenLists(elements, n) == CountTag(elements, "ul", n) - CountTag(elements, "/ul", n)

\* the numbers of items between each opening tag and the next closing tag
ItemsPerList(elements) ==
    LET RECURSIVE From(_)
        From(i) ==
            IF i > Len(elements) THEN <<>>
            ELSE IF elements[i].tag = "ul"
            THEN LET closings == { j \in (i + 1)..Len(elements) : elements[j].tag = "/ul" }
                     end == IF closings = {} THEN Len(elements) + 1 ELSE Min(closings)
                 IN  <<Cardinality({ j \in (i + 1)..(end - 1) : elements[j].tag = "li" })>>
                         \o From(i + 1)
            ELSE From(i + 1)
    IN  From(1)

\* C17: markdown_to_html groups bullet lines: each maximal run of
\* consecutive bullet lines is wrapped in one list container, closed at the
\* first line that is no bullet or at the end of the input; every item lies
\* in an open list, lists are never nested nor left open, nothing but items
\* lies in a list, and there are as many closing tags as opening tags.
C17_BulletsGrouped ==
    pc = "md_done" =>
        LET out == insights_html
            n == Len(out)
        IN  /\ \A i \in 0..n : OpenLists(out, i) \in {0, 1}
            /\ OpenLists(out, n) = 0
            /\ CountTag(out, "ul", n) = CountTag(out, "/ul", n)
            /\ \A i \in 1..n :
                  /\ out[i].tag = "li" => OpenLists(out, i) = 1
                  /\ out[i].tag \in {"h3", "h4", "p", "br"} => OpenLists(out, i) = 0
            /\ ItemsPerList(out) = RunLengths(insights)
            /\ CountTag(out, "li", n)
                   = Cardinality({ i \in DOMAIN insights : BulletLine(insights[i]) })

\* a heading, a run of two bullets, an empty line, and a run of one bullet
\* that ends the input: two lists, both closed
C17_Witness ==
    /\ pc = "md_done"
    /\ insights = << <<"#", "#", "#", " ", "Title">>, <<"*", " ", "a">>,
                     <<"-", " ", "b">>, <<" ", "*", " ", "c", " ">> >>
    /\ [i \in DOMAIN insights_html |-> insights_html[i].tag]
           = <<"h4", "ul", "li", "li", "li", "/ul">>

\* the elements of the output that are no list container tags
LineElementsOf(elements) ==
    SelectSeq(elements, LAMBDA e : e.tag \notin {"ul", "/ul"})

\* a line without the blanks before its first and after its last other token
Unpadded(line) ==
    LET solid == { k \in DOMAIN line : line[k] # " " }
    IN  IF solid = {} THEN <<>> ELSE SubSeq(line, Min(solid), Max(solid))

Leads(text, marker) ==
    Len(text) >= Len(marker) /\ \A k \in DOMAIN marker : text[k] = marker[k]

\* the rules of the claim in their order, applied to a text
KindOf(text) ==
    IF Leads(text, <<"#", "#", "#", " ">>) THEN "h4"
    ELSE IF Leads(text, <<"#", "#", " ">>) THEN "h3"
    ELSE IF Leads(text, <<"*", " ">>) \/ Leads(text, <<"-", " ">>) THEN "li"
    ELSE IF \A k \in DOMAIN text : text[k] = " " THEN "br"
    ELSE "p"

MdConverted == pc = "md_done" /\ insights # << <<>> >>

\* C22 as stated: each line of a non-empty input gives exactly one element,
\* in input order, of the kind of the first matching rule: leading "### "
\* a sub-heading, else leading "## " a heading, else leading "* " or "- " a
\* list item, else a blank line a line break, else a paragraph.
C22_ClassifiedByLeadingMarker ==
    MdConverted =>
        LET out == LineElementsOf(insights_html)
        IN  /\ Len(out) = Len(insights)
            /\ \A i \in DOMAIN insights : out[i].tag = KindOf(insights[i])

\* C22 amended: the rules are applied to the line without its leading and
\* trailing blanks: an indented marker counts, and a marker followed by
\* nothing but blanks does not and gives a paragraph.
C22_ClassifiedAfterStrip ==
    MdConverted =>
        LET out == LineElementsOf(insights_html)
        IN  /\ Len(out) = Len(insights)
            /\ \A i \in DOMAIN insights : out[i].tag = KindOf(Unpadded(insights[i]))

\* an indented bullet given as a list item, an indented heading given as a
\* heading, a bare "* " given as a paragraph and a line of blanks given as
\* a line break
C22_Witness ==
    /\ pc = "md_done"
    /\ insights = << <<" ", "*", " ", "c", " ">>, <<" ", "#", "#", " ", "h">>,
                     <<"*", " ">>, <<" ", " ">> >>
    /\ [i \in DOMAIN insights_html |-> insights_html[i].tag]
           = <<"ul", "li", "/ul", "h3", "p", "br">>

-----------------------------------------------------------------------------
(* Dates harness: the derivation of the two periods for a run at any day   *)
(* of a leap year, of a common year and of a century year without leap day *)

InvocationYears == {2024, 2025, 2100}

InvocationDates ==
    { <<y, m, d>> : y \in InvocationYears, m \in 1..12, d \in 1..31 }
    \ { <<y, m, d>> \in InvocationYears \X (1..12) \X (1..31) : d > DaysInMonth(y, m) }

InitDates ==
    /\ pc = "dates_current"
    /\ today \in InvocationDates
    /\ period = None /\ prev_period = None
    /\ api_result = None
    /\ raw_data = None
    /\ prev_raw_data = None
    /\ processed_data = None
    /\ campaign_data = <<>>
    /\ prev_processed_data = None
    /\ evolution_rates = None
    /\ html_report = None
    /\ JobIdle

\* period_start, period_end at the start of run_monthly_analysis
DerivePeriod ==
    /\ pc = "dates_current"
    /\ period' = current_period(today)
    /\ pc' = "dates_previous"
    /\ UNCHANGED <<today, prev_period, api_result, raw_data, prev_raw_data,
                   processed_data, campaign_data, prev_processed_data, evolution_rates,
                   html_report, jobVars>>

\* prev_period_start, prev_period_end before the previous-period query
DerivePreviousPeriod ==
    /\ pc = "dates_previous"
    /\ prev_period' = previous_period(period.start)
    /\ pc' = "dates_done"
    /\ UNCHANGED <<today, period, api_result, raw_data, prev_raw_data,
                   processed_data, campaign_data, prev_processed_data, evolution_rates,
                   html_report, jobVars>>

NextDates == DerivePeriod \/ DerivePreviousPeriod

SpecDates == InitDates /\ [][NextDates]_vars

\* the lengths of the months of a common year
MonthLengths == <<31, 28, 31, 30, 31, 30, 31, 31, 30, 31, 30, 31>>

\* the last day of a month of the calendar
LastDayOf(year, month) ==
    IF month = 2 /\ year % 4 = 0 /\ (year % 100 # 0 \/ year % 400 = 0)
    THEN 29 ELSE MonthLengths[month]

\* the calendar month before a month, as <<year, month>>
MonthBefore(year, month) ==
    IF month = 1 THEN <<year - 1, 12>> ELSE <<year, month - 1>>

\* the whole calendar month <<year, month>> as a period
WholeMonth(ym) ==
    [start |-> <<ym[1], ym[2], 1>>, end |-> <<ym[1], ym[2], LastDayOf(ym[1], ym[2])>>]

RECURSIVE DaysBeforeMonth(_, _)
DaysBeforeMonth(year, month) ==
    IF month = 1 THEN 0
    ELSE DaysBeforeMonth(year, month - 1) + LastDayOf(year, month - 1)

\* the number of the day in the proleptic Gregorian calendar
Ordinal(date) ==
    LET y == date[1] - 1
    IN  365 * y + (y \div 4) - (y \div 100) + (y \div 400)
            + DaysBeforeMonth(date[1], date[2]) + date[3]

\* C18: the reporting period is the calendar month before the month of the
\* invocation date, from its day 1 to its last day, also across a year
\* boundary; the comparison period is the whole calendar month before it;
\* prev_period_end is the day before period_start and the periods do not
\* overlap.
C18_PreviousCalendarMonths ==
    pc = "dates_done" =>
        LET reported == MonthBefore(today[1], today[2])
            compared == MonthBefore(reported[1], reported[2])
        IN  /\ period = WholeMonth(reported)
            /\ prev_period = WholeMonth(compared)
            /\ Ordinal(prev_period.end) + 1 = Ordinal(period.start)
            /\ Ordinal(prev_period.start) <= Ordinal(prev_period.end)
            /\ Ordinal(period.end) < Ordinal(first_of_month(today))

\* a run in January of the year after a leap year: December, then November
C18_Witness ==
    /\ pc = "dates_done"
    /\ today = <<2025, 1, 31>>
    /\ period = [start |-> <<2024, 12, 1>>, end |-> <<2024, 12, 31>>]
    /\ prev_period = [start |-> <<2024, 11, 1>>, end |-> <<2024, 11, 30>>]

====
